---- MODULE Spec2Model ----
(***************************************************************************)
(* Allergen classification engine of the dataset-preparation pipeline:     *)
(* map_allergens.py, map_to_common_allergens and its lexicon.              *)
(*                                                                         *)
(* A Python str is modelled as a sequence of one-character strings.  The   *)
(* character "U+017F" stands for the single code point LATIN SMALL LETTER  *)
(* LONG S, a lowercase letter whose str.upper() is "S".                    *)
(***************************************************************************)
EXTENDS Integers, Sequences, FiniteSets

VARIABLES
  mappings,         \* the module global ALLERGEN_MAPPINGS as the process holds it
  calls,            \* texts of the calls of the run, in call order
  made,             \* number of calls made so far
  pc,               \* "idle" between calls, "error" once a call raised
  allergen_text,    \* argument of the latest call
  found_allergens,  \* the local set found_allergens at the end of the latest call
  tried,            \* per lexicon entry, number of keywords the latest call tested
  result,           \* string returned by the latest call
  returned,         \* log of the finished calls: <<[text, result], ...>>
  stage,            \* what the run does: "calls", "process_excel" or "from_scratch"
  ws,               \* the data rows of the source worksheet; ws[k] is row k + 1
  row,              \* the row the workbook loop is at
  out,              \* the cells written so far, by row
  mapped_count,     \* the counter mapped_count of the workbook loop
  th_text,          \* concurrent calls: the argument of each call
  th_pc,            \* concurrent calls: "start", "loop" or "done"
  th_lower,         \* concurrent calls: the local allergen_lower of each call
  th_n,             \* concurrent calls: the label the outer loop of each call is at
  th_found,         \* concurrent calls: the local found_allergens of each call
  th_result,        \* concurrent calls: the value each call returned
  overlapped,       \* a call took a step while another call was in its loop
  candidate,        \* the product under check
  allowed,          \* what is_from_allowed_country returned for it
  free,             \* what is_truly_allergen_free returned for it
  mapped,           \* what the mapping stage returned for its ingredients
  target_count,     \* collectors: the argument target_count
  max_retries,      \* the argument max_retries of search_without_allergens
  collected,        \* collectors: the dict collected, product by code
  country,          \* collectors: the index in countries the country loop is at
  page,             \* collectors: the page the page loop is at
  loop_at,          \* collectors: "country", "page", "request", "returned",
                    \* "product" or "done"
  attempt,          \* requests sent so far by the running search call
  last_outcome,     \* how the latest request ended: "none", "ok", "timeout", "error"
  n_response,       \* the number of products of the latest successful response
  n_products,       \* the number of products of the list the search call returned
  taken,            \* how many of them the product loop has taken
  allergen_at,      \* the index in allergen_targets the allergen loop is at
  allergen_counts,  \* the counts of the allergens begun, in their order
  page_requests     \* page requests made for this allergen in this country

\* the state of the classifier and of its callers' call log
classifierVars ==
  <<mappings, calls, made, pc, allergen_text, found_allergens, tried, result, returned>>

\* the state of a workbook run
batchVars == <<stage, ws, row, out, mapped_count>>

\* the state of the concurrent calls
concVars == <<th_text, th_pc, th_lower, th_n, th_found, th_result, overlapped>>

\* the state of the checks of one product
productVars == <<candidate, allowed, free, mapped>>

\* the state of a collector and of its search call
netVars ==
  <<target_count, max_retries, collected, country, page, loop_at, attempt, last_outcome,
    n_response, n_products, taken, allergen_at, allergen_counts, page_requests>>

vars == <<classifierVars, batchVars, concVars, productVars, netVars>>

(***************************************************************************)
(* Bounds                                                                  *)
(***************************************************************************)
\* longest input assembled from pieces
MaxPieces == 2
\* longest sequence of calls in one run
MaxCalls == 3
\* most data rows of a worksheet
MaxRows == 2
\* number of concurrent calls
MaxThreads == 2
\* most country tags of a product
MaxTags == 2
\* largest target_count
MaxCount == 2
\* largest max_retries
MaxRetries == 2
\* most products of a response
MaxPageSize == 2
\* the cap on the targets of allergen_targets
MaxTarget == 1
\* most pieces of a field of a joined text
MaxJoin == 2

(***************************************************************************)
(* Characters                                                              *)
(***************************************************************************)
LowerLetters ==
  <<"a", "b", "c", "d", "e", "f", "g", "h", "i", "j", "k", "l", "m",
    "n", "o", "p", "q", "r", "s", "t", "u", "v", "w", "x", "y", "z">>

UpperLetters ==
  <<"A", "B", "C", "D", "E", "F", "G", "H", "I", "J", "K", "L", "M",
    "N", "O", "P", "Q", "R", "S", "T", "U", "V", "W", "X", "Y", "Z">>

Digits == <<"0", "1", "2", "3", "4", "5", "6", "7", "8", "9">>

LongS == "U+017F"

Range(f) == {f[i] : i \in DOMAIN f}

\* characters str.strip() removes
Whitespace == {" ", "\t"}

\* other characters of the inputs
Punctuation == {",", "(", "_", "=", ":", "-"}

Chars ==
  Range(LowerLetters) \cup Range(UpperLetters) \cup Range(Digits)
    \cup {LongS} \cup Whitespace \cup Punctuation

AlnumChars ==
  Range(LowerLetters) \cup Range(UpperLetters) \cup Range(Digits) \cup {LongS}

\* str.isalnum() of one character
IsAlnum(c) == c \in AlnumChars

WordChars == AlnumChars \cup {"_"}

\* a \w that knows letters only
IsWordCharLettersOnly(c) ==
  c \in Range(LowerLetters) \cup Range(UpperLetters) \cup {LongS}

\* the class \w of the re module for str patterns
IsWordChar(c) == c \in WordChars

\* ord(c)
Ord ==
  [c \in Chars |->
     IF c \in Range(LowerLetters)
       THEN 96 + (CHOOSE i \in DOMAIN LowerLetters : LowerLetters[i] = c)
     ELSE IF c \in Range(UpperLetters)
       THEN 64 + (CHOOSE i \in DOMAIN UpperLetters : UpperLetters[i] = c)
     ELSE IF c \in Range(Digits)
       THEN 47 + (CHOOSE i \in DOMAIN Digits : Digits[i] = c)
     ELSE IF c = LongS THEN 383
     ELSE IF c = " " THEN 32
     ELSE IF c = "\t" THEN 9
     ELSE IF c = "," THEN 44
     ELSE IF c = "(" THEN 40
     ELSE IF c = "=" THEN 61
     ELSE IF c = ":" THEN 58
     ELSE IF c = "-" THEN 45
     ELSE 95]

\* str.lower() of one character
LowerChar ==
  [c \in Chars |->
     IF c \in Range(UpperLetters)
       THEN LowerLetters[CHOOSE i \in DOMAIN UpperLetters : UpperLetters[i] = c]
       ELSE c]

\* str.upper() of one character
UpperChar ==
  [c \in Chars |->
     IF c \in Range(LowerLetters)
       THEN UpperLetters[CHOOSE i \in DOMAIN LowerLetters : LowerLetters[i] = c]
     ELSE IF c = LongS THEN "S"
     ELSE c]

\* str.lower()
RECURSIVE Lower(_)
Lower(s) ==
  IF s = <<>> THEN <<>> ELSE <<LowerChar[Head(s)]>> \o Lower(Tail(s))

\* str.upper()
RECURSIVE Upper(_)
Upper(s) ==
  IF s = <<>> THEN <<>> ELSE <<UpperChar[Head(s)]>> \o Upper(Tail(s))

\* str.strip()
RECURSIVE LStrip(_)
LStrip(s) ==
  IF s # <<>> /\ Head(s) \in Whitespace THEN LStrip(Tail(s)) ELSE s

RECURSIVE RStrip(_)
RStrip(s) ==
  IF s # <<>> /\ s[Len(s)] \in Whitespace
    THEN RStrip(SubSeq(s, 1, Len(s) - 1))
    ELSE s

Strip(s) == RStrip(LStrip(s))

(***************************************************************************)
(* The lexicon.  A dict keeps insertion order, so it is a sequence of      *)
(* entries.                                                                *)
(***************************************************************************)
ALLERGEN_MAPPINGS ==
  <<
    [ common_allergen |-> <<"m", "i", "l", "k">>,
      keywords |-> <<
        <<"m", "i", "l", "k">>,
        <<"d", "a", "i", "r", "y">>,
        <<"l", "a", "c", "t", "o", "s", "e">>,
        <<"c", "a", "s", "e", "i", "n">>,
        <<"w", "h", "e", "y">>,
        <<"b", "u", "t", "t", "e", "r">>,
        <<"c", "r", "e", "a", "m">>,
        <<"c", "h", "e", "e", "s", "e">>,
        <<"y", "o", "g", "u", "r", "t">>,
        <<"y", "o", "g", "h", "u", "r", "t">>,
        <<"g", "h", "e", "e">>,
        <<"p", "a", "n", "e", "e", "r">>,
        <<"c", "u", "r", "d">>,
        <<"l", "a", "c", "t", "a", "l", "b", "u", "m", "i", "n">>,
        <<"l", "a", "c", "t", "o", "g", "l", "o", "b", "u", "l", "i", "n">>,
        <<"m", "i", "l", "k", " ", "p", "r", "o", "t", "e", "i", "n">>,
        <<"m", "i", "l", "k", " ", "p", "o", "w", "d", "e", "r">>,
        <<"s", "k", "i", "m", "m", "e", "d", " ", "m", "i", "l", "k">>,
        <<"w", "h", "o", "l", "e", " ", "m", "i", "l", "k">>,
        <<"c", "o", "n", "d", "e", "n", "s", "e", "d", " ", "m", "i", "l", "k">>,
        <<"e", "v", "a", "p", "o", "r", "a", "t", "e", "d", " ", "m", "i", "l", "k">>,
        <<"b", "u", "t", "t", "e", "r", "m", "i", "l", "k">>,
        <<"m", "i", "l", "k", " ", "f", "a", "t">>,
        <<"m", "i", "l", "k", " ", "s", "o", "l", "i", "d", "s">>,
        <<"l", "a", "i", "t">>,
        <<"m", "i", "l", "c", "h">>
      >> ],
    [ common_allergen |-> <<"e", "g", "g">>,
      keywords |-> <<
        <<"e", "g", "g">>,
        <<"e", "g", "g", "s">>,
        <<"a", "l", "b", "u", "m", "i", "n">>,
        <<"a", "l", "b", "u", "m", "e", "n">>,
        <<"g", "l", "o", "b", "u", "l", "i", "n">>,
        <<"l", "y", "s", "o", "z", "y", "m", "e">>,
        <<"m", "a", "y", "o", "n", "n", "a", "i", "s", "e">>,
        <<"m", "e", "r", "i", "n", "g", "u", "e">>,
        <<"o", "v", "a", "l", "b", "u", "m", "i", "n">>,
        <<"o", "v", "o", "m", "u", "c", "i", "n">>,
        <<"o", "v", "o", "m", "u", "c", "o", "i", "d">>,
        <<"o", "v", "o", "v", "i", "t", "e", "l", "l", "i", "n">>,
        <<"e", "g", "g", " ", "w", "h", "i", "t", "e">>,
        <<"e", "g", "g", " ", "y", "o", "l", "k">>,
        <<"e", "g", "g", " ", "p", "r", "o", "t", "e", "i", "n">>,
        <<"d", "r", "i", "e", "d", " ", "e", "g", "g">>,
        <<"e", "g", "g", " ", "p", "o", "w", "d", "e", "r">>,
        <<"w", "h", "o", "l", "e", " ", "e", "g", "g">>,
        <<"p", "a", "s", "t", "e", "u", "r", "i", "z", "e", "d", " ", "e", "g", "g">>,
        <<"l", "i", "q", "u", "i", "d", " ", "e", "g", "g">>
      >> ],
    [ common_allergen |-> <<"p", "e", "a", "n", "u", "t">>,
      keywords |-> <<
        <<"p", "e", "a", "n", "u", "t">>,
        <<"p", "e", "a", "n", "u", "t", "s">>,
        <<"g", "r", "o", "u", "n", "d", "n", "u", "t">>,
        <<"g", "r", "o", "u", "n", "d", "n", "u", "t", "s">>,
        <<"a", "r", "a", "c", "h", "i", "s">>,
        <<"m", "o", "n", "k", "e", "y", " ", "n", "u", "t">>,
        <<"e", "a", "r", "t", "h", " ", "n", "u", "t">>,
        <<"b", "e", "e", "r", " ", "n", "u", "t">>,
        <<"p", "e", "a", "n", "u", "t", " ", "o", "i", "l">>,
        <<"p", "e", "a", "n", "u", "t", " ", "b", "u", "t", "t", "e", "r">>,
        <<"p", "e", "a", "n", "u", "t", " ", "f", "l", "o", "u", "r">>,
        <<"a", "r", "a", "c", "h", "i", "s", " ", "h", "y", "p", "o", "g", "a", "e", "a">>,
        <<"g", "o", "o", "b", "e", "r">>
      >> ],
    [ common_allergen |-> <<"t", "r", "e", "e", " ", "n", "u", "t">>,
      keywords |-> <<
        <<"a", "l", "m", "o", "n", "d">>,
        <<"a", "l", "m", "o", "n", "d", "s">>,
        <<"c", "a", "s", "h", "e", "w">>,
        <<"c", "a", "s", "h", "e", "w", "s">>,
        <<"w", "a", "l", "n", "u", "t">>,
        <<"w", "a", "l", "n", "u", "t", "s">>,
        <<"p", "e", "c", "a", "n">>,
        <<"p", "e", "c", "a", "n", "s">>,
        <<"p", "i", "s", "t", "a", "c", "h", "i", "o">>,
        <<"p", "i", "s", "t", "a", "c", "h", "i", "o", "s">>,
        <<"h", "a", "z", "e", "l", "n", "u", "t">>,
        <<"h", "a", "z", "e", "l", "n", "u", "t", "s">>,
        <<"f", "i", "l", "b", "e", "r", "t">>,
        <<"f", "i", "l", "b", "e", "r", "t", "s">>,
        <<"m", "a", "c", "a", "d", "a", "m", "i", "a">>,
        <<"b", "r", "a", "z", "i", "l", " ", "n", "u", "t">>,
        <<"b", "r", "a", "z", "i", "l", " ", "n", "u", "t", "s">>,
        <<"c", "h", "e", "s", "t", "n", "u", "t">>,
        <<"c", "h", "e", "s", "t", "n", "u", "t", "s">>,
        <<"p", "i", "n", "e", " ", "n", "u", "t">>,
        <<"p", "i", "n", "e", " ", "n", "u", "t", "s">>,
        <<"p", "r", "a", "l", "i", "n", "e">>,
        <<"m", "a", "r", "z", "i", "p", "a", "n">>,
        <<"n", "o", "u", "g", "a", "t">>,
        <<"g", "i", "a", "n", "d", "u", "j", "a">>,
        <<"t", "r", "e", "e", " ", "n", "u", "t">>,
        <<"t", "r", "e", "e", " ", "n", "u", "t", "s">>,
        <<"n", "u", "t">>,
        <<"n", "u", "t", "s">>,
        <<"m", "i", "x", "e", "d", " ", "n", "u", "t", "s">>,
        <<"c", "o", "c", "o", "n", "u", "t">>
      >> ],
    [ common_allergen |-> <<"w", "h", "e", "a", "t">>,
      keywords |-> <<
        <<"w", "h", "e", "a", "t">>,
        <<"g", "l", "u", "t", "e", "n">>,
        <<"f", "l", "o", "u", "r">>,
        <<"b", "r", "e", "a", "d">>,
        <<"b", "r", "e", "a", "d", "c", "r", "u", "m", "b", "s">>,
        <<"b", "u", "l", "g", "u", "r">>,
        <<"c", "o", "u", "s", "c", "o", "u", "s">>,
        <<"d", "u", "r", "u", "m">>,
        <<"e", "i", "n", "k", "o", "r", "n">>,
        <<"e", "m", "m", "e", "r">>,
        <<"f", "a", "r", "i", "n", "a">>,
        <<"k", "a", "m", "u", "t">>,
        <<"s", "e", "m", "o", "l", "i", "n", "a">>,
        <<"s", "p", "e", "l", "t">>,
        <<"t", "r", "i", "t", "i", "c", "a", "l", "e">>,
        <<"w", "h", "e", "a", "t", " ", "g", "e", "r", "m">>,
        <<"w", "h", "e", "a", "t", " ", "b", "r", "a", "n">>,
        <<"w", "h", "e", "a", "t", " ", "s", "t", "a", "r", "c", "h">>,
        <<"w", "h", "e", "a", "t", " ", "p", "r", "o", "t", "e", "i", "n">>,
        <<"w", "h", "e", "a", "t", " ", "f", "l", "o", "u", "r">>,
        <<"w", "h", "o", "l", "e", " ", "w", "h", "e", "a", "t">>,
        <<"e", "n", "r", "i", "c", "h", "e", "d", " ", "f", "l", "o", "u", "r">>,
        <<"a", "l", "l", " ", "p", "u", "r", "p", "o", "s", "e", " ", "f", "l", "o", "u", "r">>,
        <<"b", "r", "e", "a", "d", " ", "f", "l", "o", "u", "r">>,
        <<"c", "a", "k", "e", " ", "f", "l", "o", "u", "r">>,
        <<"s", "e", "i", "t", "a", "n">>,
        <<"v", "i", "t", "a", "l", " ", "w", "h", "e", "a", "t", " ", "g", "l", "u", "t", "e", "n">>,
        <<"m", "o", "d", "i", "f", "i", "e", "d", " ", "w", "h", "e", "a", "t", " ", "s", "t", "a", "r", "c", "h">>
      >> ],
    [ common_allergen |-> <<"s", "o", "y">>,
      keywords |-> <<
        <<"s", "o", "y">>,
        <<"s", "o", "y", "a">>,
        <<"s", "o", "y", "b", "e", "a", "n">>,
        <<"s", "o", "y", "b", "e", "a", "n", "s">>,
        <<"e", "d", "a", "m", "a", "m", "e">>,
        <<"m", "i", "s", "o">>,
        <<"t", "e", "m", "p", "e", "h">>,
        <<"t", "o", "f", "u">>,
        <<"s", "o", "y", " ", "s", "a", "u", "c", "e">>,
        <<"s", "o", "y", " ", "p", "r", "o", "t", "e", "i", "n">>,
        <<"s", "o", "y", " ", "l", "e", "c", "i", "t", "h", "i", "n">>,
        <<"s", "o", "y", " ", "f", "l", "o", "u", "r">>,
        <<"s", "o", "y", " ", "m", "i", "l", "k">>,
        <<"s", "o", "y", " ", "o", "i", "l">>,
        <<"t", "e", "x", "t", "u", "r", "e", "d", " ", "v", "e", "g", "e", "t", "a", "b", "l", "e", " ", "p", "r", "o", "t", "e", "i", "n">>,
        <<"t", "v", "p">>,
        <<"h", "y", "d", "r", "o", "l", "y", "z", "e", "d", " ", "s", "o", "y">>,
        <<"s", "o", "y", " ", "i", "s", "o", "l", "a", "t", "e">>,
        <<"s", "o", "y", " ", "c", "o", "n", "c", "e", "n", "t", "r", "a", "t", "e">>,
        <<"s", "o", "y", "a", " ", "b", "e", "a", "n">>,
        <<"s", "o", "j", "a">>
      >> ],
    [ common_allergen |-> <<"f", "i", "s", "h">>,
      keywords |-> <<
        <<"f", "i", "s", "h">>,
        <<"s", "a", "l", "m", "o", "n">>,
        <<"t", "u", "n", "a">>,
        <<"c", "o", "d">>,
        <<"h", "a", "d", "d", "o", "c", "k">>,
        <<"a", "n", "c", "h", "o", "v", "y">>,
        <<"a", "n", "c", "h", "o", "v", "i", "e", "s">>,
        <<"s", "a", "r", "d", "i", "n", "e">>,
        <<"s", "a", "r", "d", "i", "n", "e", "s">>,
        <<"m", "a", "c", "k", "e", "r", "e", "l">>,
        <<"h", "e", "r", "r", "i", "n", "g">>,
        <<"t", "r", "o", "u", "t">>,
        <<"b", "a", "s", "s">>,
        <<"t", "i", "l", "a", "p", "i", "a">>,
        <<"p", "o", "l", "l", "o", "c", "k">>,
        <<"c", "a", "t", "f", "i", "s", "h">>,
        <<"p", "e", "r", "c", "h">>,
        <<"p", "i", "k", "e">>,
        <<"c", "a", "r", "p">>,
        <<"h", "a", "l", "i", "b", "u", "t">>,
        <<"f", "l", "o", "u", "n", "d", "e", "r">>,
        <<"s", "o", "l", "e">>,
        <<"s", "n", "a", "p", "p", "e", "r">>,
        <<"g", "r", "o", "u", "p", "e", "r">>,
        <<"s", "w", "o", "r", "d", "f", "i", "s", "h">>,
        <<"m", "a", "h", "i">>,
        <<"f", "i", "s", "h", " ", "s", "a", "u", "c", "e">>,
        <<"f", "i", "s", "h", " ", "o", "i", "l">>,
        <<"f", "i", "s", "h", " ", "p", "r", "o", "t", "e", "i", "n">>,
        <<"f", "i", "s", "h", " ", "g", "e", "l", "a", "t", "i", "n">>,
        <<"o", "m", "e", "g", "a", " ", "3">>,
        <<"d", "h", "a">>,
        <<"e", "p", "a">>
      >> ],
    [ common_allergen |-> <<"s", "h", "e", "l", "l", "f", "i", "s", "h">>,
      keywords |-> <<
        <<"s", "h", "e", "l", "l", "f", "i", "s", "h">>,
        <<"s", "h", "r", "i", "m", "p">>,
        <<"p", "r", "a", "w", "n">>,
        <<"p", "r", "a", "w", "n", "s">>,
        <<"c", "r", "a", "b">>,
        <<"l", "o", "b", "s", "t", "e", "r">>,
        <<"c", "r", "a", "y", "f", "i", "s", "h">>,
        <<"c", "r", "a", "w", "f", "i", "s", "h">>,
        <<"l", "a", "n", "g", "o", "u", "s", "t", "i", "n", "e">>,
        <<"s", "c", "a", "l", "l", "o", "p">>,
        <<"s", "c", "a", "l", "l", "o", "p", "s">>,
        <<"c", "l", "a", "m">>,
        <<"c", "l", "a", "m", "s">>,
        <<"m", "u", "s", "s", "e", "l">>,
        <<"m", "u", "s", "s", "e", "l", "s">>,
        <<"o", "y", "s", "t", "e", "r">>,
        <<"o", "y", "s", "t", "e", "r", "s">>,
        <<"s", "q", "u", "i", "d">>,
        <<"c", "a", "l", "a", "m", "a", "r", "i">>,
        <<"o", "c", "t", "o", "p", "u", "s">>,
        <<"s", "n", "a", "i", "l">>,
        <<"e", "s", "c", "a", "r", "g", "o", "t">>,
        <<"a", "b", "a", "l", "o", "n", "e">>,
        <<"c", "o", "c", "k", "l", "e">>,
        <<"c", "r", "u", "s", "t", "a", "c", "e", "a", "n">>,
        <<"c", "r", "u", "s", "t", "a", "c", "e", "a", "n", "s">>,
        <<"m", "o", "l", "l", "u", "s", "c">>,
        <<"m", "o", "l", "l", "u", "s", "k">>,
        <<"m", "o", "l", "l", "u", "s", "c", "s">>,
        <<"m", "o", "l", "l", "u", "s", "k", "s">>
      >> ],
    [ common_allergen |-> <<"s", "e", "s", "a", "m", "e">>,
      keywords |-> <<
        <<"s", "e", "s", "a", "m", "e">>,
        <<"s", "e", "s", "a", "m", "e", " ", "s", "e", "e", "d">>,
        <<"s", "e", "s", "a", "m", "e", " ", "s", "e", "e", "d", "s">>,
        <<"t", "a", "h", "i", "n", "i">>,
        <<"t", "a", "h", "i", "n", "a">>,
        <<"h", "a", "l", "v", "a", "h">>,
        <<"h", "a", "l", "v", "a">>,
        <<"h", "u", "m", "m", "u", "s">>,
        <<"h", "o", "u", "m", "o", "u", "s">>,
        <<"s", "e", "s", "a", "m", "e", " ", "o", "i", "l">>,
        <<"s", "e", "s", "a", "m", "e", " ", "p", "a", "s", "t", "e">>,
        <<"s", "e", "s", "a", "m", "e", " ", "f", "l", "o", "u", "r">>,
        <<"g", "o", "m", "a">>,
        <<"t", "i", "l">>,
        <<"b", "e", "n", "n", "e", " ", "s", "e", "e", "d">>,
        <<"s", "e", "s", "a", "m", "u", "m">>
      >> ]
  >>

NumLabels == Len(ALLERGEN_MAPPINGS)

\* the nine labels
CommonAllergens == {ALLERGEN_MAPPINGS[n].common_allergen : n \in 1..NumLabels}

(***************************************************************************)
(* The re module, for the patterns the program builds.                     *)
(***************************************************************************)
\* characters re.escape() puts a backslash before
SpecialChars == {"(", "-", " ", "\t"}

\* re.escape(keyword)
RECURSIVE ReEscape(_)
ReEscape(keyword) ==
  IF keyword = <<>> THEN <<>>
  ELSE (IF Head(keyword) \in SpecialChars
          THEN <<"\\", Head(keyword)>>
          ELSE <<Head(keyword)>>) \o ReEscape(Tail(keyword))

\* the pattern without its word boundaries: a plain substring search
PatternNoBoundary(keyword) == ReEscape(keyword)

\* pattern = r'\b' + re.escape(keyword) + r'\b'
Pattern(keyword) == <<"\\", "b">> \o ReEscape(keyword) \o <<"\\", "b">>

\* re.compile: the pattern as a sequence of atoms.  Atoms are the word
\* boundary assertion, a literal character, or an error (a pattern that
\* re rejects: an unterminated group, a backslash ending the pattern or
\* before a letter or digit other than b, which the program never builds).
RECURSIVE Compile(_, _)
Compile(pattern, i) ==
  IF i > Len(pattern) THEN <<>>
  ELSE IF pattern[i] = "\\"
    THEN IF i = Len(pattern) THEN <<[kind |-> "error", ch |-> ""]>>
         ELSE IF pattern[i + 1] = "b"
           THEN <<[kind |-> "wb", ch |-> ""]>> \o Compile(pattern, i + 2)
         ELSE IF IsAlnum(pattern[i + 1]) THEN <<[kind |-> "error", ch |-> ""]>>
         ELSE <<[kind |-> "lit", ch |-> pattern[i + 1]]>> \o Compile(pattern, i + 2)
  ELSE IF pattern[i] = "(" THEN <<[kind |-> "error", ch |-> ""]>>
  ELSE <<[kind |-> "lit", ch |-> pattern[i]]>> \o Compile(pattern, i + 1)

\* re.error raised for the compiled pattern
ReError(atoms) == \E j \in DOMAIN atoms : atoms[j].kind = "error"

\* \b at the position after the first p characters of string
AtWordBoundary(string, p) ==
  LET before == p >= 1 /\ IsWordChar(string[p])
      after  == p < Len(string) /\ IsWordChar(string[p + 1])
  IN  before # after

\* the atoms from the j-th on match string from position p on
RECURSIVE MatchHere(_, _, _, _)
MatchHere(atoms, j, string, p) ==
  IF j > Len(atoms) THEN TRUE
  ELSE IF atoms[j].kind = "wb"
    THEN AtWordBoundary(string, p) /\ MatchHere(atoms, j + 1, string, p)
    ELSE /\ p < Len(string)
         /\ string[p + 1] = atoms[j].ch
         /\ MatchHere(atoms, j + 1, string, p + 1)

\* re.search(pattern, string): "error" when re rejects the pattern, else
\* "match" or "none"
ReSearch(pattern, string) ==
  LET atoms == Compile(pattern, 1)
  IN  IF ReError(atoms) THEN "error"
      ELSE IF \E p \in 0..Len(string) : MatchHere(atoms, 1, string, p)
        THEN "match"
        ELSE "none"

(***************************************************************************)
(* map_to_common_allergens                                                 *)
(***************************************************************************)
\* the emptiness test without the strip()
IsBlankNoStrip(text) == text = <<>>

\* not allergen_text or allergen_text.strip() == ""
IsBlank(text) == text = <<>> \/ Strip(text) = <<>>

\* the text matched as it is given
AllergenLowerIdentity(text) == text

\* allergen_lower = allergen_text.lower()
AllergenLower(text) == Lower(text)

\* re.search with its arguments exchanged
KeywordSearchSwapped(keyword, lower) == ReSearch(lower, Pattern(keyword))

\* the test of one keyword: re.search(pattern, allergen_lower)
KeywordSearch(keyword, lower) == ReSearch(Pattern(keyword), lower)

\* an inner loop without the break: every keyword is tested
InnerLoopNoBreak(keywords, i, lower) ==
  LET outcomes == [k \in 1..Len(keywords) |-> KeywordSearch(keywords[k], lower)]
  IN  [tested  |-> Len(keywords),
       outcome |-> IF \E k \in 1..Len(keywords) : outcomes[k] = "error" THEN "error"
                   ELSE IF \E k \in 1..Len(keywords) : outcomes[k] = "match" THEN "match"
                   ELSE "none"]

\* an inner loop that stops after its first keyword, matched or not
InnerLoopFirstOnly(keywords, i, lower) ==
  IF keywords = <<>> THEN [tested |-> 0, outcome |-> "none"]
  ELSE [tested |-> 1, outcome |-> KeywordSearch(keywords[1], lower)]

\* the inner loop over keywords[i..]: the number of keywords tested when the
\* loop ends, and how it ends: "match" (break), "error" (re.search raised)
\* or "none" (the keywords ran out)
RECURSIVE InnerLoop(_, _, _)
InnerLoop(keywords, i, lower) ==
  IF i > Len(keywords) THEN [tested |-> Len(keywords), outcome |-> "none"]
  ELSE LET outcome == KeywordSearch(keywords[i], lower)
       IN  IF outcome = "none"
             THEN InnerLoop(keywords, i + 1, lower)
             ELSE [tested |-> i, outcome |-> outcome]

\* a set that outlives the call
StaleFoundSet == found_allergens

\* found_allergens = set()
NewFoundSet == {}

\* an outer loop that the first match ends
OuterLoopBreakAll(items, n, lower, st) ==
  LET hits == {m \in 1..Len(items) :
                 InnerLoop(items[m].keywords, 1, lower).outcome = "match"}
      first == CHOOSE m \in hits : \A k \in hits : m <= k
  IN  IF hits = {}
        THEN [st EXCEPT !.tried = [m \in 1..Len(items) |-> Len(items[m].keywords)]]
        ELSE [st EXCEPT
                !.tried = [m \in 1..Len(items) |->
                             IF m > first THEN 0
                             ELSE InnerLoop(items[m].keywords, 1, lower).tested],
                !.found = @ \cup {items[first].common_allergen}]

\* the outer loop from entry n on.  st = [found, tried, error]
RECURSIVE OuterLoop(_, _, _, _)
OuterLoop(items, n, lower, st) ==
  IF n > Len(items) THEN st
  ELSE
    LET end == InnerLoop(items[n].keywords, 1, lower)
    IN  IF end.outcome = "none"
          THEN OuterLoop(items, n + 1, lower,
                 [st EXCEPT !.tried[n] = end.tested])
        ELSE IF end.outcome = "error"
          THEN [st EXCEPT !.tried[n] = end.tested, !.error = TRUE]
        ELSE OuterLoop(items, n + 1, lower,
               [st EXCEPT !.tried[n] = end.tested,
                          !.found = @ \cup {items[n].common_allergen}])

\* a < b for str
RECURSIVE StrLess(_, _)
StrLess(a, b) ==
  IF b = <<>> THEN FALSE
  ELSE IF a = <<>> THEN TRUE
  ELSE IF Head(a) # Head(b) THEN Ord[Head(a)] < Ord[Head(b)]
  ELSE StrLess(Tail(a), Tail(b))

\* sorted(found_allergens)
RECURSIVE Sorted(_)
Sorted(S) ==
  IF S = {} THEN <<>>
  ELSE LET least == CHOOSE a \in S : \A b \in S \ {a} : StrLess(a, b)
       IN  <<least>> \o Sorted(S \ {least})

\* the labels in the order of the lexicon, not sorted
RECURSIVE InsertionOrder(_, _)
InsertionOrder(found, n) ==
  IF n > NumLabels THEN <<>>
  ELSE (IF ALLERGEN_MAPPINGS[n].common_allergen \in found
          THEN <<ALLERGEN_MAPPINGS[n].common_allergen>>
          ELSE <<>>) \o InsertionOrder(found, n + 1)

SortedAllergensInsertionOrder(found) == InsertionOrder(found, 1)

\* sorted_allergens = sorted(found_allergens)
SortedAllergens(found) == Sorted(found)

\* sep.join(strs)
RECURSIVE Join(_, _)
Join(sep, strs) ==
  IF strs = <<>> THEN <<>>
  ELSE IF Len(strs) = 1 THEN strs[1]
  ELSE strs[1] \o sep \o Join(sep, Tail(strs))

NoneTried == [n \in 1..NumLabels |-> 0]

\* one call: [result, found, tried, error]
map_to_common_allergens(items, text) ==
  IF IsBlank(text)
    THEN [result |-> <<>>, found |-> {}, tried |-> NoneTried, error |-> FALSE]
    ELSE
      LET allergen_lower == AllergenLower(text)
          st == OuterLoop(items, 1, allergen_lower,
                  [found |-> NewFoundSet, tried |-> NoneTried, error |-> FALSE])
      IN  [result |-> IF st.error THEN <<>>
                      ELSE Join(<<",", " ">>, SortedAllergens(st.found)),
           found  |-> st.found,
           tried  |-> st.tried,
           error  |-> st.error]

(***************************************************************************)
(* Inputs                                                                  *)
(***************************************************************************)
Pieces ==
  { <<"m", "i", "l", "k">>, <<"N", "u", "t">>, <<LongS, "o", "y">>,
    <<" ">>, <<",">>, <<"_">>, <<"3">>, <<"(">> }

\* the texts made of exactly k pieces
RECURSIVE PieceTexts(_)
PieceTexts(k) ==
  IF k = 0 THEN {<<>>}
  ELSE {t \o p : t \in PieceTexts(k - 1), p \in Pieces}

AssembledTexts == UNION {PieceTexts(k) : k \in 0..MaxPieces}

AllKeywords ==
  UNION {Range(ALLERGEN_MAPPINGS[n].keywords) : n \in 1..NumLabels}

\* every trigger phrase of more than one word, as a text of its own
MultiWordPhrases ==
  {keyword \in AllKeywords : \E i \in DOMAIN keyword : keyword[i] = " "}

DoughnutShop ==
  <<"d", "o", "u", "g", "h", "n", "u", "t", " ", "s", "h", "o", "p">>

Nutmeg == <<"n", "u", "t", "m", "e", "g">>

Eggplant == <<"e", "g", "g", "p", "l", "a", "n", "t">>

MilkAndWheatFlour ==
  <<"m", "i", "l", "k", " ", "a", "n", "d", " ",
    "w", "h", "e", "a", "t", " ", "f", "l", "o", "u", "r">>

\* "contains milk, eggs, and wheat flour"
ContainsSentence ==
  <<"c", "o", "n", "t", "a", "i", "n", "s", " ", "m", "i", "l", "k", ",", " ",
    "e", "g", "g", "s", ",", " ", "a", "n", "d", " ",
    "w", "h", "e", "a", "t", " ", "f", "l", "o", "u", "r">>

\* the number of the word the i-th character of s is in (0 before the first)
WordNumber(s, i) ==
  Cardinality({j \in 1..i : IsAlnum(s[j]) /\ (j = 1 \/ ~IsAlnum(s[j - 1]))})

\* s with the words numbered in mask upper-cased
RECURSIVE CaseVariant(_, _, _)
CaseVariant(s, mask, i) ==
  IF i > Len(s) THEN <<>>
  ELSE <<IF WordNumber(s, i) \in mask THEN UpperChar[s[i]] ELSE s[i]>>
         \o CaseVariant(s, mask, i + 1)

\* the sentence with each of its six words in lower or upper case
ContainsSentenceVariants ==
  {CaseVariant(ContainsSentence, mask, 1) : mask \in SUBSET (1..6)}

\* whitespace-only texts
BlankTexts == { <<"\t">>, <<" ", "\t">>, <<"\t", " ", " ">> }

ExampleTexts ==
  {DoughnutShop, Nutmeg, Eggplant, MilkAndWheatFlour}
    \cup BlankTexts \cup ContainsSentenceVariants

Texts == AssembledTexts \cup MultiWordPhrases \cup ExampleTexts

\* the texts of the runs of several calls
CallTexts == { <<"m", "i", "l", "k">>, <<"e", "g", "g">>, <<" ">> }

RECURSIVE CallSequences(_)
CallSequences(k) ==
  IF k = 0 THEN {<<>>}
  ELSE {Append(q, t) : q \in CallSequences(k - 1), t \in CallTexts}

Inputs ==
  {<<t>> : t \in Texts} \cup UNION {CallSequences(k) : k \in 2..MaxCalls}

(***************************************************************************)
(* Specification                                                           *)
(***************************************************************************)
(***************************************************************************)
(* The products of the collection stage and the checks on them             *)
(***************************************************************************)
\* sub in s
Contains(sub, s) ==
  \E i \in 0..(Len(s) - Len(sub)) : SubSeq(s, i + 1, i + Len(sub)) = sub

\* ALLOWED_COUNTRIES
ALLOWED_COUNTRIES ==
  <<
    <<"e", "n", ":", "u", "n", "i", "t", "e", "d", "-", "s", "t", "a", "t", "e", "s">>,
    <<"e", "n", ":", "u", "n", "i", "t", "e", "d", "-", "k", "i", "n", "g", "d", "o", "m">>,
    <<"e", "n", ":", "u", "s">>, <<"e", "n", ":", "u", "k">> >>

\* the fragments is_from_allowed_country looks for in a country tag
AllowedFragments ==
  <<
    <<"u", "n", "i", "t", "e", "d", "-", "s", "t", "a", "t", "e", "s">>,
    <<"u", "n", "i", "t", "e", "d", "-", "k", "i", "n", "g", "d", "o", "m">>,
    <<"u", "s">>, <<"u", "k">> >>

\* is_from_allowed_country(product)
is_from_allowed_country(product) ==
  IF product.countries_tags = <<>> THEN FALSE
  ELSE \E k \in DOMAIN product.countries_tags :
         \E a \in DOMAIN AllowedFragments :
           Contains(AllowedFragments[a], Lower(product.countries_tags[k]))

\* sum(1 for char in text if ord(char) > 127)
NonAsciiCount(text) == Cardinality({i \in DOMAIN text : Ord[text[i]] > 127})

\* sum(1 for word in words if word in text)
CountIn(words, text) == Cardinality({k \in DOMAIN words : Contains(words[k], text)})

\* non_english_patterns; the patterns of the source that hold a character
\* outside Chars occur in no text over Chars and are left out
non_english_patterns ==
  <<
    <<"z", "u", "c", "k", "e", "r">>,
    <<"z", "u", "t", "a", "t", "e", "n">>, <<"s", "u", "c", "r", "e">>,
    <<"f", "a", "r", "i", "n", "e">>, <<"h", "u", "i", "l", "e">>,
    <<"l", "a", "i", "t">>, <<"b", "e", "u", "r", "r", "e">>,
    <<"l", "e", "c", "h", "e">>, <<"h", "a", "r", "i", "n", "a">>,
    <<"a", "c", "e", "i", "t", "e">>,
    <<"m", "a", "n", "t", "e", "q", "u", "i", "l", "l", "a">>,
    <<"m", "i", "l", "c", "h">>, <<"m", "e", "h", "l">>,
    <<"b", "u", "t", "t", "e", "r">>, <<"e", "i", "e", "r">> >>

\* english_food_words
english_food_words ==
  <<
    <<"s", "u", "g", "a", "r">>, <<"s", "a", "l", "t">>,
    <<"w", "a", "t", "e", "r">>, <<"o", "i", "l">>,
    <<"f", "l", "o", "u", "r">>, <<"m", "i", "l", "k">>,
    <<"c", "r", "e", "a", "m">>, <<"b", "u", "t", "t", "e", "r">>,
    <<"e", "g", "g">>, <<"w", "h", "e", "a", "t">>,
    <<"c", "o", "n", "t", "a", "i", "n", "s">>,
    <<"i", "n", "g", "r", "e", "d", "i", "e", "n", "t", "s">>,
    <<"n", "a", "t", "u", "r", "a", "l">>,
    <<"f", "l", "a", "v", "o", "r">>,
    <<"e", "x", "t", "r", "a", "c", "t">>,
    <<"p", "o", "w", "d", "e", "r">>, <<"s", "y", "r", "u", "p">>,
    <<"a", "c", "i", "d">>, <<"v", "i", "t", "a", "m", "i", "n">>,
    <<"p", "r", "o", "t", "e", "i", "n">>,
    <<"m", "o", "d", "i", "f", "i", "e", "d">>,
    <<"s", "t", "a", "r", "c", "h">>,
    <<"e", "m", "u", "l", "s", "i", "f", "i", "e", "r">>,
    <<"p", "r", "e", "s", "e", "r", "v", "a", "t", "i", "v", "e">>,
    <<"c", "o", "l", "o", "r">>,
    <<"a", "r", "t", "i", "f", "i", "c", "i", "a", "l">>,
    <<"o", "r", "g", "a", "n", "i", "c">>, <<"w", "h", "o", "l", "e">>,
    <<"e", "n", "r", "i", "c", "h", "e", "d">>, <<"d", "r", "i", "e", "d">> >>

\* is_english_text(text)
is_english_text(text) ==
  IF text = <<>> \/ Len(text) < 5 THEN FALSE
  ELSE IF NonAsciiCount(text) * 10 > Len(text) THEN FALSE
  ELSE IF CountIn(non_english_patterns, Lower(text)) >= 3 THEN FALSE
  ELSE IF CountIn(english_food_words, Lower(text)) < 2 THEN FALSE
  ELSE TRUE

\* food_indicators
food_indicators ==
  <<
    <<"s", "u", "g", "a", "r">>, <<"s", "a", "l", "t">>,
    <<"w", "a", "t", "e", "r">>, <<"o", "i", "l">>,
    <<"f", "l", "o", "u", "r">>, <<"m", "i", "l", "k">>,
    <<"c", "r", "e", "a", "m">>, <<"b", "u", "t", "t", "e", "r">>,
    <<"e", "g", "g">>, <<"w", "h", "e", "a", "t">>, <<"c", "o", "r", "n">>,
    <<"r", "i", "c", "e">>, <<"s", "t", "a", "r", "c", "h">>,
    <<"e", "x", "t", "r", "a", "c", "t">>,
    <<"f", "l", "a", "v", "o", "r">>, <<"a", "c", "i", "d">>,
    <<"v", "i", "t", "a", "m", "i", "n">>,
    <<"p", "r", "o", "t", "e", "i", "n">>, <<"f", "a", "t">>,
    <<"s", "o", "d", "i", "u", "m">>,
    <<"c", "a", "l", "c", "i", "u", "m">>,
    <<"n", "a", "t", "u", "r", "a", "l">>,
    <<"o", "r", "g", "a", "n", "i", "c">>,
    <<"p", "o", "w", "d", "e", "r">>, <<"s", "y", "r", "u", "p">>,
    <<"j", "u", "i", "c", "e">>, <<"p", "u", "r", "e", "e">>,
    <<"v", "e", "g", "e", "t", "a", "b", "l", "e">>,
    <<"f", "r", "u", "i", "t">>, <<"m", "e", "a", "t">>,
    <<"f", "i", "s", "h">>, <<"c", "h", "i", "c", "k", "e", "n">>,
    <<"b", "e", "e", "f">>, <<"t", "o", "m", "a", "t", "o">>,
    <<"p", "o", "t", "a", "t", "o">>, <<"o", "n", "i", "o", "n">>,
    <<"g", "a", "r", "l", "i", "c">>, <<"s", "p", "i", "c", "e">>,
    <<"h", "e", "r", "b">> >>

\* is_valid_product(product, require_allergens)
is_valid_product(product, require_allergens) ==
  IF product.code = "" \/ product.product_name = <<>>
     \/ product.ingredients_text_en = <<>> THEN FALSE
  ELSE IF Len(product.ingredients_text_en) < 10 THEN FALSE
  ELSE IF NonAsciiCount(product.product_name) * 100 > 15 * Len(product.product_name)
    THEN FALSE
  ELSE IF ~is_english_text(product.ingredients_text_en) THEN FALSE
  ELSE IF CountIn(food_indicators, Lower(product.ingredients_text_en)) = 0 THEN FALSE
  ELSE IF ~is_from_allowed_country(product) THEN FALSE
  ELSE IF require_allergens THEN Len(product.allergens_tags) > 0
  ELSE Len(product.allergens_tags) = 0

\* allergen_keywords of is_truly_allergen_free
allergen_keywords ==
  <<
    <<"w", "h", "e", "a", "t">>, <<"b", "a", "r", "l", "e", "y">>,
    <<"r", "y", "e">>, <<"o", "a", "t">>, <<"s", "p", "e", "l", "t">>,
    <<"k", "a", "m", "u", "t">>, <<"g", "l", "u", "t", "e", "n">>,
    <<"m", "i", "l", "k">>, <<"c", "r", "e", "a", "m">>,
    <<"b", "u", "t", "t", "e", "r">>, <<"c", "h", "e", "e", "s", "e">>,
    <<"l", "a", "c", "t", "o", "s", "e">>, <<"w", "h", "e", "y">>,
    <<"c", "a", "s", "e", "i", "n">>, <<"d", "a", "i", "r", "y">>,
    <<"e", "g", "g">>, <<"a", "l", "b", "u", "m", "i", "n">>,
    <<"m", "a", "y", "o", "n", "n", "a", "i", "s", "e">>,
    <<"a", "l", "m", "o", "n", "d">>, <<"c", "a", "s", "h", "e", "w">>,
    <<"w", "a", "l", "n", "u", "t">>, <<"p", "e", "c", "a", "n">>,
    <<"p", "i", "s", "t", "a", "c", "h", "i", "o">>,
    <<"h", "a", "z", "e", "l", "n", "u", "t">>,
    <<"m", "a", "c", "a", "d", "a", "m", "i", "a">>,
    <<"b", "r", "a", "z", "i", "l", " ", "n", "u", "t">>,
    <<"c", "h", "e", "s", "t", "n", "u", "t">>, <<"n", "u", "t">>,
    <<"p", "e", "a", "n", "u", "t">>,
    <<"g", "r", "o", "u", "n", "d", "n", "u", "t">>,
    <<"a", "r", "a", "c", "h", "i", "s">>, <<"s", "o", "y">>,
    <<"s", "o", "y", "a">>, <<"e", "d", "a", "m", "a", "m", "e">>,
    <<"t", "o", "f", "u">>, <<"t", "e", "m", "p", "e", "h">>,
    <<"f", "i", "s", "h">>, <<"s", "a", "l", "m", "o", "n">>,
    <<"t", "u", "n", "a">>, <<"c", "o", "d">>,
    <<"a", "n", "c", "h", "o", "v", "y">>,
    <<"s", "a", "r", "d", "i", "n", "e">>,
    <<"m", "a", "c", "k", "e", "r", "e", "l">>,
    <<"s", "h", "r", "i", "m", "p">>, <<"p", "r", "a", "w", "n">>,
    <<"c", "r", "a", "b">>, <<"l", "o", "b", "s", "t", "e", "r">>,
    <<"c", "r", "a", "y", "f", "i", "s", "h">>,
    <<"s", "h", "e", "l", "l", "f", "i", "s", "h">>,
    <<"c", "r", "u", "s", "t", "a", "c", "e", "a", "n">>,
    <<"o", "y", "s", "t", "e", "r">>, <<"m", "u", "s", "s", "e", "l">>,
    <<"c", "l", "a", "m">>, <<"s", "c", "a", "l", "l", "o", "p">>,
    <<"s", "q", "u", "i", "d">>, <<"o", "c", "t", "o", "p", "u", "s">>,
    <<"m", "o", "l", "l", "u", "s", "c">>,
    <<"s", "e", "s", "a", "m", "e">>, <<"t", "a", "h", "i", "n", "i">>,
    <<"m", "u", "s", "t", "a", "r", "d">>,
    <<"c", "e", "l", "e", "r", "y">>,
    <<"c", "e", "l", "e", "r", "i", "a", "c">>,
    <<"l", "u", "p", "i", "n">>, <<"l", "u", "p", "i", "n", "e">>,
    <<"s", "u", "l", "p", "h", "i", "t", "e">>,
    <<"s", "u", "l", "f", "i", "t", "e">>,
    <<"s", "u", "l", "p", "h", "u", "r", " ", "d", "i", "o", "x", "i", "d", "e">>,
    <<"s", "u", "l", "f", "u", "r", " ", "d", "i", "o", "x", "i", "d", "e">> >>

\* is_truly_allergen_free(product)
is_truly_allergen_free(product) ==
  IF Len(product.allergens_tags) > 0 THEN FALSE
  ELSE IF Len(product.traces_tags) > 0 THEN FALSE
  ELSE CountIn(allergen_keywords, Lower(product.ingredients_text_en)) = 0

\* tag.split(":")[-1] if ":" in tag else tag
RECURSIVE AfterLastColon(_)
AfterLastColon(tag) ==
  IF \E i \in DOMAIN tag : tag[i] = ":"
    THEN AfterLastColon(Tail(tag))
    ELSE tag

\* s.replace(old, new), for single characters
ReplaceChar(s, old, new) == [i \in DOMAIN s |-> IF s[i] = old THEN new ELSE s[i]]

\* the characters that have a case
CasedChars == Range(LowerLetters) \cup Range(UpperLetters) \cup {LongS}

\* s.title()
Title(s) ==
  [i \in DOMAIN s |->
     IF i = 1 \/ s[i - 1] \notin CasedChars THEN UpperChar[s[i]] ELSE LowerChar[s[i]]]

\* format_allergens(allergens_tags)
format_allergens(allergens_tags) ==
  IF allergens_tags = <<>> THEN <<>>
  ELSE Join(<<",", " ">>,
            [k \in DOMAIN allergens_tags |->
               Title(ReplaceChar(AfterLastColon(allergens_tags[k]), "-", " "))])

\* the checks of the collection stage and the mapping stage, on one product
IsFromAllowedCountry ==
  /\ stage = "product"
  /\ allowed = "none"
  /\ allowed' = IF is_from_allowed_country(candidate) THEN "True" ELSE "False"
  /\ UNCHANGED <<candidate, free, mapped, classifierVars, batchVars, concVars, netVars>>

IsTrulyAllergenFree ==
  /\ stage = "product"
  /\ free = "none"
  /\ free' = IF is_truly_allergen_free(candidate) THEN "True" ELSE "False"
  /\ UNCHANGED <<candidate, allowed, mapped, classifierVars, batchVars, concVars, netVars>>

\* the mapping stage on the row of the product: the declaration
\* format_allergens gives, one space, the ingredients
MapProduct ==
  /\ stage = "product"
  /\ mapped = <<"None">>
  /\ \E r \in {map_to_common_allergens(mappings,
                   format_allergens(candidate.allergens_tags) \o <<" ">>
                     \o candidate.ingredients_text_en)} :
       /\ ~r.error
       /\ mapped' = r.result
  /\ UNCHANGED <<candidate, allowed, free, classifierVars, batchVars, concVars, netVars>>

\* no product is under check
NoProduct ==
  /\ candidate = <<>>
  /\ allowed = "none"
  /\ free = "none"
  /\ mapped = <<"None">>

(***************************************************************************)
(* The products the checks are applied to                                  *)
(***************************************************************************)
\* a product with a milk tag, sold in the United States
MilkBarUS ==
  [code |-> "c1",
   product_name |-> <<"M", "i", "l", "k", " ", "b", "a", "r">>,
   ingredients_text_en |-> <<"s", "u", "g", "a", "r", ",", " ", "m", "i", "l", "k", ",", " ", "s", "a", "l", "t">>,
   allergens_tags |-> <<<<"e", "n", ":", "m", "i", "l", "k">>>>,
   traces_tags |-> <<>>,
   countries_tags |-> <<<<"e", "n", ":", "u", "n", "i", "t", "e", "d", "-", "s", "t", "a", "t", "e", "s">>>>]

\* a product with a lupin tag, sold in the United Kingdom
LupinLoafUK ==
  [code |-> "c1",
   product_name |-> <<"L", "u", "p", "i", "n", " ", "l", "o", "a", "f">>,
   ingredients_text_en |-> <<"l", "u", "p", "i", "n", " ", "f", "l", "o", "u", "r", ",", " ", "w", "a", "t", "e", "r">>,
   allergens_tags |-> <<<<"e", "n", ":", "l", "u", "p", "i", "n">>>>,
   traces_tags |-> <<>>,
   countries_tags |-> <<<<"e", "n", ":", "u", "n", "i", "t", "e", "d", "-", "k", "i", "n", "g", "d", "o", "m">>>>]

\* the milk bar, sold in France
MilkBarFrance ==
  [code |-> "c1",
   product_name |-> <<"M", "i", "l", "k", " ", "b", "a", "r">>,
   ingredients_text_en |-> <<"s", "u", "g", "a", "r", ",", " ", "m", "i", "l", "k", ",", " ", "s", "a", "l", "t">>,
   allergens_tags |-> <<<<"e", "n", ":", "m", "i", "l", "k">>>>,
   traces_tags |-> <<>>,
   countries_tags |-> <<<<"e", "n", ":", "f", "r", "a", "n", "c", "e">>>>]

\* the milk bar, sold in Australia
MilkBarAustralia ==
  [code |-> "c1",
   product_name |-> <<"M", "i", "l", "k", " ", "b", "a", "r">>,
   ingredients_text_en |-> <<"s", "u", "g", "a", "r", ",", " ", "m", "i", "l", "k", ",", " ", "s", "a", "l", "t">>,
   allergens_tags |-> <<<<"e", "n", ":", "m", "i", "l", "k">>>>,
   traces_tags |-> <<>>,
   countries_tags |-> <<<<"e", "n", ":", "a", "u", "s", "t", "r", "a", "l", "i", "a">>>>]

\* a product with no tag whose ingredients hold flour
CornMixUS ==
  [code |-> "c1",
   product_name |-> <<"C", "o", "r", "n", " ", "m", "i", "x">>,
   ingredients_text_en |-> <<"c", "o", "r", "n", " ", "f", "l", "o", "u", "r", ",", " ", "s", "u", "g", "a", "r", ",", " ", "s", "a", "l", "t">>,
   allergens_tags |-> <<>>,
   traces_tags |-> <<>>,
   countries_tags |-> <<<<"e", "n", ":", "u", "n", "i", "t", "e", "d", "-", "s", "t", "a", "t", "e", "s">>>>]

\* a product with no tag and no allergen in its ingredients
SodaUS ==
  [code |-> "c1",
   product_name |-> <<"S", "o", "d", "a">>,
   ingredients_text_en |-> <<"w", "a", "t", "e", "r", ",", " ", "s", "u", "g", "a", "r", ",", " ", "s", "a", "l", "t">>,
   allergens_tags |-> <<>>,
   traces_tags |-> <<>>,
   countries_tags |-> <<<<"e", "n", ":", "u", "n", "i", "t", "e", "d", "-", "s", "t", "a", "t", "e", "s">>>>]

\* the soda, with a traces tag
SodaTracesUS ==
  [code |-> "c1",
   product_name |-> <<"S", "o", "d", "a">>,
   ingredients_text_en |-> <<"w", "a", "t", "e", "r", ",", " ", "s", "u", "g", "a", "r", ",", " ", "s", "a", "l", "t">>,
   allergens_tags |-> <<>>,
   traces_tags |-> <<<<"e", "n", ":", "n", "u", "t", "s">>>>,
   countries_tags |-> <<<<"e", "n", ":", "u", "n", "i", "t", "e", "d", "-", "s", "t", "a", "t", "e", "s">>>>]

\* a product whose ingredients are mostly French
GateauUS ==
  [code |-> "c1",
   product_name |-> <<"G", "a", "t", "e", "a", "u">>,
   ingredients_text_en |-> <<"s", "u", "c", "r", "e", ",", " ", "f", "a", "r", "i", "n", "e", ",", " ", "h", "u", "i", "l", "e", ",", " ", "w", "a", "t", "e", "r", ",", " ", "s", "a", "l", "t">>,
   allergens_tags |-> <<<<"e", "n", ":", "g", "l", "u", "t", "e", "n">>>>,
   traces_tags |-> <<>>,
   countries_tags |-> <<<<"e", "n", ":", "u", "n", "i", "t", "e", "d", "-", "s", "t", "a", "t", "e", "s">>>>]

\* the milk bar under a name that is half non-ASCII
LongSBarUS ==
  [code |-> "c1",
   product_name |-> <<"U+017F", "U+017F", "a", "b">>,
   ingredients_text_en |-> <<"s", "u", "g", "a", "r", ",", " ", "m", "i", "l", "k", ",", " ", "s", "a", "l", "t">>,
   allergens_tags |-> <<<<"e", "n", ":", "m", "i", "l", "k">>>>,
   traces_tags |-> <<>>,
   countries_tags |-> <<<<"e", "n", ":", "u", "n", "i", "t", "e", "d", "-", "s", "t", "a", "t", "e", "s">>>>]

\* a product whose ingredients are too short
MilkUS ==
  [code |-> "c1",
   product_name |-> <<"M", "i", "l", "k">>,
   ingredients_text_en |-> <<"m", "i", "l", "k">>,
   allergens_tags |-> <<<<"e", "n", ":", "m", "i", "l", "k">>>>,
   traces_tags |-> <<>>,
   countries_tags |-> <<<<"e", "n", ":", "u", "n", "i", "t", "e", "d", "-", "s", "t", "a", "t", "e", "s">>>>]

ProductKinds ==
  {MilkBarUS, LupinLoafUK, MilkBarFrance, MilkBarAustralia,
   CornMixUS, SodaUS, SodaTracesUS, GateauUS,
   LongSBarUS, MilkUS}

\* the country tags of the inputs
CountryTags ==
  {<<"e", "n", ":", "u", "n", "i", "t", "e", "d", "-", "s", "t", "a", "t", "e", "s">>,
   <<"e", "n", ":", "u", "n", "i", "t", "e", "d", "-", "k", "i", "n", "g", "d", "o", "m">>,
   <<"e", "n", ":", "u", "s">>,
   <<"E", "N", ":", "U", "K">>,
   <<"e", "n", ":", "f", "r", "a", "n", "c", "e">>,
   <<"e", "n", ":", "g", "e", "r", "m", "a", "n", "y">>,
   <<"e", "n", ":", "a", "u", "s", "t", "r", "a", "l", "i", "a">>,
   <<"e", "n", ":", "u", "k", "r", "a", "i", "n", "e">>}

\* the lists of exactly k country tags
RECURSIVE CountryListsOf(_)
CountryListsOf(k) ==
  IF k = 0 THEN {<<>>}
  ELSE {Append(list, tag) : list \in CountryListsOf(k - 1), tag \in CountryTags}

CountryLists == UNION {CountryListsOf(k) : k \in 0..MaxTags}

\* every kind of product, and the milk bar under every list of country tags
ProductInputs ==
  ProductKinds \cup {[MilkBarUS EXCEPT !.countries_tags = list] : list \in CountryLists}

\* the product codes of the responses
Codes == {"", "c1", "c2"}

\* the products of the responses to search_by_allergen_country
TaggedProducts ==
  {[kind EXCEPT !.code = code] :
     kind \in {MilkBarUS, LupinLoafUK, MilkBarFrance, SodaUS}, code \in Codes}

\* the products of the responses to search_without_allergens
PlainProducts ==
  {[kind EXCEPT !.code = code] :
     kind \in {SodaUS, SodaTracesUS, MilkBarUS}, code \in Codes}

(***************************************************************************)
(* search_without_allergens and collect_products_without_allergens         *)
(***************************************************************************)
\* countries
countries == <<"en:united-states", "en:united-kingdom">>

\* the end of range(1, 30)
PageStop == 30

\* the other variables of a step of the collector
OtherVars == <<classifierVars, batchVars, concVars, productVars>>

\* the products that pass is_valid_product(product, require_allergens=False)
\* and is_truly_allergen_free(product)
AllergenFree ==
  {p \in PlainProducts : is_valid_product(p, FALSE) /\ is_truly_allergen_free(p)}

\* for country in countries: the guard of line 488, and the end of the loop
CountryStart ==
  /\ stage = "without_allergens"
  /\ loop_at = "country"
  /\ IF country > Len(countries) \/ Cardinality(DOMAIN collected) >= target_count
       THEN loop_at' = "done" /\ UNCHANGED page
       ELSE loop_at' = "page" /\ page' = 1
  /\ UNCHANGED <<target_count, max_retries, collected, country, attempt, last_outcome,
                 n_response, n_products, taken, OtherVars>>
  /\ UNCHANGED <<allergen_at, allergen_counts, page_requests>>

\* for page in range(1, 30): the guard of line 495 and the call of
\* search_without_allergens
PageStart ==
  /\ stage = "without_allergens"
  /\ loop_at = "page"
  /\ IF page >= PageStop \/ Cardinality(DOMAIN collected) >= target_count
       THEN /\ loop_at' = "country"
            /\ country' = country + 1
            /\ UNCHANGED <<attempt, last_outcome>>
       ELSE /\ loop_at' = "request"
            /\ attempt' = 0
            /\ last_outcome' = "none"
            /\ UNCHANGED country
  /\ UNCHANGED <<target_count, max_retries, collected, page, n_response, n_products,
                 taken, OtherVars>>
  /\ UNCHANGED <<allergen_at, allergen_counts, page_requests>>

\* a request that gets a response: the call returns its products
RequestOk ==
  /\ loop_at = "request"
  /\ attempt < max_retries
  /\ attempt' = attempt + 1
  /\ last_outcome' = "ok"
  /\ \E n \in 0..MaxPageSize :
       /\ n_response' = n
       /\ n_products' = n
  /\ loop_at' = "returned"
  /\ UNCHANGED <<target_count, max_retries, collected, country, page, taken, OtherVars>>
  /\ UNCHANGED <<allergen_at, allergen_counts, page_requests>>

\* a request that times out: the call sleeps and goes to its next attempt
RequestTimeout ==
  /\ loop_at = "request"
  /\ attempt < max_retries
  /\ attempt' = attempt + 1
  /\ last_outcome' = "timeout"
  /\ UNCHANGED <<target_count, max_retries, collected, country, page, loop_at, n_response,
                 n_products, taken, OtherVars>>
  /\ UNCHANGED <<allergen_at, allergen_counts, page_requests>>

\* a request that fails and is tried again
RequestErrorRetried ==
  /\ loop_at = "request"
  /\ attempt < max_retries
  /\ attempt' = attempt + 1
  /\ last_outcome' = "error"
  /\ UNCHANGED <<target_count, max_retries, collected, country, page, loop_at, n_response,
                 n_products, taken, OtherVars>>
  /\ UNCHANGED <<allergen_at, allergen_counts, page_requests>>

\* a request that fails otherwise: the call returns []
RequestError ==
  /\ loop_at = "request"
  /\ attempt < max_retries
  /\ attempt' = attempt + 1
  /\ last_outcome' = "error"
  /\ n_products' = 0
  /\ loop_at' = "returned"
  /\ UNCHANGED <<target_count, max_retries, collected, country, page, n_response,
                 taken, OtherVars>>
  /\ UNCHANGED <<allergen_at, allergen_counts, page_requests>>

\* the attempts are used up: the call returns []
GiveUp ==
  /\ loop_at = "request"
  /\ attempt >= max_retries
  /\ n_products' = 0
  /\ loop_at' = "returned"
  /\ UNCHANGED <<target_count, max_retries, collected, country, page, attempt, last_outcome,
                 n_response, taken, OtherVars>>
  /\ UNCHANGED <<allergen_at, allergen_counts, page_requests>>

\* if not products: break, else the product loop starts
Returned ==
  /\ stage = "without_allergens"
  /\ loop_at = "returned"
  /\ IF n_products = 0
       THEN /\ loop_at' = "country"
            /\ country' = country + 1
            /\ UNCHANGED taken
       ELSE /\ loop_at' = "product"
            /\ taken' = 0
            /\ UNCHANGED country
  /\ UNCHANGED <<target_count, max_retries, collected, page, attempt, last_outcome,
                 n_response, n_products, OtherVars>>
  /\ UNCHANGED <<allergen_at, allergen_counts, page_requests>>

\* for product in products: one turn with the next product of the list
TakeProduct ==
  /\ stage = "without_allergens"
  /\ loop_at = "product"
  /\ taken < n_products
  /\ Cardinality(DOMAIN collected) < target_count
  /\ taken' = taken + 1
  /\ \E p \in PlainProducts :
       collected' =
         IF p.code = "" \/ p.code \in DOMAIN collected THEN collected
         ELSE IF p \notin AllergenFree THEN collected
         ELSE [c \in DOMAIN collected \cup {p.code} |->
                 IF c = p.code THEN p ELSE collected[c]]
  /\ UNCHANGED <<target_count, max_retries, country, page, loop_at, attempt, last_outcome,
                 n_response, n_products, OtherVars>>
  /\ UNCHANGED <<allergen_at, allergen_counts, page_requests>>

\* the product loop ends, by its list or by its break, and the page loop
\* goes to its next page
EndPage ==
  /\ stage = "without_allergens"
  /\ loop_at = "product"
  /\ taken >= n_products \/ Cardinality(DOMAIN collected) >= target_count
  /\ page' = page + 1
  /\ loop_at' = "page"
  /\ UNCHANGED <<target_count, max_retries, collected, country, attempt, last_outcome,
                 n_response, n_products, taken, OtherVars>>
  /\ UNCHANGED <<allergen_at, allergen_counts, page_requests>>

\* no collector runs
NoCollector ==
  /\ target_count = 0
  /\ max_retries = 0
  /\ collected = <<>>
  /\ country = 1
  /\ page = 1
  /\ loop_at = "done"
  /\ attempt = 0
  /\ last_outcome = "none"
  /\ n_response = 0
  /\ n_products = 0
  /\ taken = 0
  /\ allergen_at = 1
  /\ allergen_counts = <<>>
  /\ page_requests = 0

(***************************************************************************)
(* collect_products_with_allergens                                         *)
(***************************************************************************)
\* allergen_targets, in the order of its items
allergen_targets ==
  <<
    [allergen |-> <<"e", "n", ":", "m", "i", "l", "k">>,
     target |-> 20],
    [allergen |-> <<"e", "n", ":", "e", "g", "g", "s">>,
     target |-> 18],
    [allergen |-> <<"e", "n", ":", "p", "e", "a", "n", "u", "t", "s">>,
     target |-> 15],
    [allergen |-> <<"e", "n", ":", "n", "u", "t", "s">>,
     target |-> 12],
    [allergen |-> <<"e", "n", ":", "f", "i", "s", "h">>,
     target |-> 12],
    [allergen |-> <<"e", "n", ":", "c", "r", "u", "s", "t", "a", "c", "e", "a", "n", "s">>,
     target |-> 10],
    [allergen |-> <<"e", "n", ":", "s", "o", "y", "b", "e", "a", "n", "s">>,
     target |-> 15],
    [allergen |-> <<"e", "n", ":", "s", "e", "s", "a", "m", "e", "-", "s", "e", "e", "d", "s">>,
     target |-> 12],
    [allergen |-> <<"e", "n", ":", "m", "u", "s", "t", "a", "r", "d">>,
     target |-> 8],
    [allergen |-> <<"e", "n", ":", "c", "e", "l", "e", "r", "y">>,
     target |-> 8],
    [allergen |-> <<"e", "n", ":", "l", "u", "p", "i", "n">>,
     target |-> 5],
    [allergen |-> <<"e", "n", ":", "m", "o", "l", "l", "u", "s", "c", "s">>,
     target |-> 5],
    [allergen |-> <<"e", "n", ":", "g", "l", "u", "t", "e", "n">>,
     target |-> 10] >>

\* the target of the allergen at index n, capped
Target(n) ==
  IF allergen_targets[n].target > MaxTarget THEN MaxTarget
  ELSE allergen_targets[n].target

\* the end of range(1, 6)
AllergenPageStop == 6

\* s.replace(old, "")
RECURSIVE Remove(_, _)
Remove(s, old) ==
  IF Len(s) < Len(old) \/ old = <<>> THEN s
  ELSE IF SubSeq(s, 1, Len(old)) = old THEN Remove(SubSeq(s, Len(old) + 1, Len(s)), old)
  ELSE <<Head(s)>> \o Remove(Tail(s), old)

\* has_target_allergen
has_target_allergen(tag, allergens_tags) ==
  \E k \in DOMAIN allergens_tags :
    \/ Contains(tag, allergens_tags[k])
    \/ Contains(Remove(tag, <<"e", "n", ":">>), allergens_tags[k])

\* the products of the responses that pass
\* is_valid_product(product, require_allergens=True)
ValidWithAllergens == {p \in TaggedProducts : is_valid_product(p, TRUE)}

\* the products of the responses that have the allergen at index n, or any
\* product when it is en:gluten
WithTarget ==
  [n \in DOMAIN allergen_targets |->
     {p \in TaggedProducts :
        \/ allergen_targets[n].allergen = <<"e", "n", ":", "g", "l", "u", "t", "e", "n">>
        \/ has_target_allergen(allergen_targets[n].allergen, p.allergens_tags)}]

\* allergen_counts[allergen_at] >= target or len(collected) >= target_count
TargetReached ==
  \/ allergen_counts[allergen_at] >= Target(allergen_at)
  \/ Cardinality(DOMAIN collected) >= target_count

\* the variables of the search call with retries
RetryVars == <<max_retries, attempt, last_outcome, n_response>>

\* for allergen, target in allergen_targets.items(): the count set to 0 and
\* the guard of line 420, and the end of the loop
AllergenStart ==
  /\ stage = "with_allergens"
  /\ loop_at = "allergen"
  /\ IF allergen_at > Len(allergen_targets)
       THEN /\ loop_at' = "done"
            /\ UNCHANGED <<allergen_counts, country>>
       ELSE /\ allergen_counts' = Append(allergen_counts, 0)
            /\ IF Cardinality(DOMAIN collected) >= target_count
                 THEN loop_at' = "done" /\ UNCHANGED country
                 ELSE loop_at' = "country" /\ country' = 1
  /\ UNCHANGED <<target_count, collected, page, n_products, taken, allergen_at,
                 page_requests, RetryVars, OtherVars>>

\* for country in countries: the guard of line 427, and the end of the loop
AllergenCountry ==
  /\ stage = "with_allergens"
  /\ loop_at = "country"
  /\ IF country > Len(countries) \/ TargetReached
       THEN /\ loop_at' = "allergen"
            /\ allergen_at' = allergen_at + 1
            /\ UNCHANGED <<page, page_requests>>
       ELSE /\ loop_at' = "page"
            /\ page' = 1
            /\ page_requests' = 0
            /\ UNCHANGED allergen_at
  /\ UNCHANGED <<target_count, collected, country, n_products, taken,
                 allergen_counts, RetryVars, OtherVars>>

\* for page in range(1, 6): the guard of line 434 and the call of
\* search_by_allergen_country, which returns the products of the response,
\* or [] after an error
AllergenPage ==
  /\ stage = "with_allergens"
  /\ loop_at = "page"
  /\ IF page >= AllergenPageStop \/ TargetReached
       THEN /\ loop_at' = "country"
            /\ country' = country + 1
            /\ UNCHANGED <<n_products, taken, page_requests>>
       ELSE /\ loop_at' = "product"
            /\ page_requests' = page_requests + 1
            /\ n_products' \in 0..MaxPageSize
            /\ taken' = 0
            /\ UNCHANGED country
  /\ UNCHANGED <<target_count, collected, page, allergen_at, allergen_counts,
                 RetryVars, OtherVars>>

\* a turn of the product loop that collects without is_valid_product
AllergenProductUnchecked ==
  /\ stage = "with_allergens"
  /\ loop_at = "product"
  /\ taken < n_products
  /\ ~TargetReached
  /\ taken' = taken + 1
  /\ \E p \in TaggedProducts :
       IF p.code = "" \/ p.code \in DOMAIN collected THEN
         UNCHANGED <<collected, allergen_counts>>
       ELSE IF p \notin WithTarget[allergen_at] THEN
         UNCHANGED <<collected, allergen_counts>>
       ELSE
         /\ collected' = [c \in DOMAIN collected \cup {p.code} |->
                            IF c = p.code THEN p ELSE collected[c]]
         /\ allergen_counts' = [allergen_counts EXCEPT ![allergen_at] = @ + 1]
  /\ UNCHANGED <<target_count, country, page, loop_at, n_products, allergen_at,
                 page_requests, RetryVars, OtherVars>>

\* for product in products: one turn with the next product of the list
AllergenProduct ==
  /\ stage = "with_allergens"
  /\ loop_at = "product"
  /\ taken < n_products
  /\ ~TargetReached
  /\ taken' = taken + 1
  /\ \E p \in TaggedProducts :
       IF p.code = "" \/ p.code \in DOMAIN collected THEN
         UNCHANGED <<collected, allergen_counts>>
       ELSE IF p \notin WithTarget[allergen_at] THEN
         UNCHANGED <<collected, allergen_counts>>
       ELSE IF p \in ValidWithAllergens THEN
         /\ collected' = [c \in DOMAIN collected \cup {p.code} |->
                            IF c = p.code THEN p ELSE collected[c]]
         /\ allergen_counts' = [allergen_counts EXCEPT ![allergen_at] = @ + 1]
       ELSE
         UNCHANGED <<collected, allergen_counts>>
  /\ UNCHANGED <<target_count, country, page, loop_at, n_products, allergen_at,
                 page_requests, RetryVars, OtherVars>>

\* the product loop ends, by its list or by its break, and the page loop
\* goes to its next page
AllergenEndPage ==
  /\ stage = "with_allergens"
  /\ loop_at = "product"
  /\ taken >= n_products \/ TargetReached
  /\ page' = page + 1
  /\ loop_at' = "page"
  /\ UNCHANGED <<target_count, collected, country, n_products, taken, allergen_at,
                 allergen_counts, page_requests, RetryVars, OtherVars>>

(***************************************************************************)
(* The workbook stages: process_excel and                                  *)
(* create_foodpreprocessed_from_scratch                                    *)
(***************************************************************************)
\* the value None of an empty cell
NoneCell == <<"None">>

\* value or ""
OrEmpty(value) == IF value = NoneCell THEN <<>> ELSE value

\* "" if str(value).startswith("=") else value
SkipFormula(value) ==
  IF value # <<>> /\ Head(value) = "=" THEN <<>> ELSE value

\* the combined text with no space between the fields
CombinedTextNoSpace(allergensraw, ingredients) == allergensraw \o ingredients

\* the combined text that leaves the ingredients out
CombinedTextDeclarationOnly(allergensraw, ingredients) == allergensraw

\* combined_text = f"{allergensraw} {ingredients}"
CombinedText(allergensraw, ingredients) == allergensraw \o <<" ">> \o ingredients

\* total_rows = ws.max_row, the header row included
TotalRows == Len(ws) + 1

\* the call of map_to_common_allergens a workbook loop makes, and the rest
\* of the loop body: the cells of the row written, the counter stepped
RowStep(ingredients, allergensraw, written) ==
  \E r \in {map_to_common_allergens(mappings, CombinedText(allergensraw, ingredients))} :
    /\ allergen_text' = CombinedText(allergensraw, ingredients)
    /\ found_allergens' = r.found
    /\ tried' = r.tried
    /\ result' = r.result
    /\ pc' = IF r.error THEN "error" ELSE "idle"
    /\ returned' = IF r.error THEN returned
                   ELSE Append(returned, [text |-> CombinedText(allergensraw, ingredients),
                                          result |-> r.result])
    /\ out' = IF r.error THEN out
              ELSE [k \in DOMAIN out \cup {row} |->
                      IF k = row
                        THEN IF written
                               THEN [ingredients |-> ingredients,
                                     allergensraw |-> allergensraw,
                                     allergensmapped |-> r.result]
                               ELSE [allergensmapped |-> r.result]
                        ELSE out[k]]
    /\ mapped_count' = IF ~r.error /\ r.result # <<>>
                         THEN mapped_count + 1 ELSE mapped_count
    /\ row' = IF r.error THEN row ELSE row + 1
    /\ UNCHANGED <<mappings, calls, made, stage, ws>>
    /\ UNCHANGED <<concVars, productVars, netVars>>

\* one turn of the loop of process_excel
ProcessExcelRow ==
  /\ stage = "process_excel"
  /\ pc = "idle"
  /\ row <= TotalRows
  /\ RowStep(OrEmpty(ws[row - 1].ingredients), OrEmpty(ws[row - 1].allergensraw), FALSE)

\* one turn of the loop of create_foodpreprocessed_from_scratch
FromScratchRow ==
  /\ stage = "from_scratch"
  /\ pc = "idle"
  /\ row <= TotalRows
  /\ RowStep(SkipFormula(OrEmpty(ws[row - 1].ingredients)),
             SkipFormula(OrEmpty(ws[row - 1].allergensraw)), TRUE)

\* no workbook is open
NoWorkbook ==
  /\ stage = "calls"
  /\ ws = <<>>
  /\ row = 2
  /\ out = <<>>
  /\ mapped_count = 0

(***************************************************************************)
(* Concurrent calls of map_to_common_allergens                             *)
(***************************************************************************)
Threads == 1..MaxThreads

\* a found set that all the calls share
AddFoundShared(t, allergen) ==
  [u \in DOMAIN th_found |-> th_found[u] \cup {allergen}]

\* found_allergens.add(common_allergen), on the set local to call t
AddFound(t, allergen) ==
  [th_found EXCEPT ![t] = @ \cup {allergen}]

\* a step of call t overlaps a call that is in its loop
Overlaps(t) == overlapped \/ \E u \in Threads \ {t} : th_pc[u] = "loop"

\* call t enters: the blank check, the lower-casing, the empty found set
ThreadEnter(t) ==
  /\ th_pc[t] = "start"
  /\ IF IsBlank(th_text[t])
       THEN /\ th_pc' = [th_pc EXCEPT ![t] = "done"]
            /\ th_result' = [th_result EXCEPT ![t] = <<>>]
            /\ UNCHANGED <<th_lower, th_n, th_found>>
       ELSE /\ th_pc' = [th_pc EXCEPT ![t] = "loop"]
            /\ th_lower' = [th_lower EXCEPT ![t] = AllergenLower(th_text[t])]
            /\ th_n' = [th_n EXCEPT ![t] = 1]
            /\ th_found' = [th_found EXCEPT ![t] = {}]
            /\ UNCHANGED th_result
  /\ overlapped' = Overlaps(t)
  /\ UNCHANGED <<th_text, classifierVars, batchVars, productVars, netVars>>

\* call t makes one turn of its outer loop: the keywords of one label
ThreadLabel(t) ==
  /\ th_pc[t] = "loop"
  /\ th_n[t] <= Len(mappings)
  /\ \E r \in {InnerLoop(mappings[th_n[t]].keywords, 1, th_lower[t])} :
       /\ r.outcome # "error"
       /\ th_found' = IF r.outcome = "match"
                         THEN AddFound(t, mappings[th_n[t]].common_allergen)
                         ELSE th_found
  /\ th_n' = [th_n EXCEPT ![t] = @ + 1]
  /\ overlapped' = Overlaps(t)
  /\ UNCHANGED <<th_text, th_pc, th_lower, th_result, classifierVars, batchVars, productVars, netVars>>

\* call t leaves its loop, sorts and joins its found set and returns
ThreadReturn(t) ==
  /\ th_pc[t] = "loop"
  /\ th_n[t] > Len(mappings)
  /\ th_pc' = [th_pc EXCEPT ![t] = "done"]
  /\ th_result' = [th_result EXCEPT ![t] = Join(<<",", " ">>, SortedAllergens(th_found[t]))]
  /\ overlapped' = Overlaps(t)
  /\ UNCHANGED <<th_text, th_lower, th_n, th_found, classifierVars, batchVars, productVars, netVars>>

\* no concurrent calls
NoThreads ==
  /\ th_text = <<>>
  /\ th_pc = <<>>
  /\ th_lower = <<>>
  /\ th_n = <<>>
  /\ th_found = <<>>
  /\ th_result = <<>>
  /\ overlapped = FALSE

\* a lexicon whose first keyword is capitalised
InitCapitalised ==
  /\ mappings = [ALLERGEN_MAPPINGS EXCEPT ![1].keywords[1] = <<"M", "i", "l", "k">>]
  /\ calls \in Inputs
  /\ made = 0
  /\ pc = "idle"
  /\ allergen_text = <<>>
  /\ found_allergens = {}
  /\ tried = NoneTried
  /\ result = <<>>
  /\ returned = <<>>
  /\ NoWorkbook
  /\ NoThreads
  /\ NoProduct
  /\ NoCollector

Init ==
  /\ mappings = ALLERGEN_MAPPINGS
  /\ calls \in Inputs
  /\ made = 0
  /\ pc = "idle"
  /\ allergen_text = <<>>
  /\ found_allergens = {}
  /\ tried = NoneTried
  /\ result = <<>>
  /\ returned = <<>>
  /\ NoWorkbook
  /\ NoThreads
  /\ NoProduct
  /\ NoCollector

\* a call that removes the first phrase of the lexicon when it finds a label
MapToCommonAllergensConsuming ==
  /\ pc = "idle"
  /\ made < Len(calls)
  /\ \E text \in {calls[made + 1]} :
       \E r \in {map_to_common_allergens(mappings, text)} :
         /\ allergen_text' = text
         /\ found_allergens' = r.found
         /\ tried' = r.tried
         /\ result' = r.result
         /\ pc' = IF r.error THEN "error" ELSE "idle"
         /\ returned' = IF r.error THEN returned
                        ELSE Append(returned, [text |-> text, result |-> r.result])
         /\ mappings' = IF r.found = {} THEN mappings
                        ELSE [mappings EXCEPT ![1].keywords = Tail(@)]
  /\ made' = made + 1
  /\ UNCHANGED calls
  /\ UNCHANGED <<batchVars, concVars, productVars, netVars>>

\* one call of map_to_common_allergens, with the next text of the run
MapToCommonAllergens ==
  /\ pc = "idle"
  /\ made < Len(calls)
  /\ \E text \in {calls[made + 1]} :
       \E r \in {map_to_common_allergens(mappings, text)} :
         /\ allergen_text' = text
         /\ found_allergens' = r.found
         /\ tried' = r.tried
         /\ result' = r.result
         /\ pc' = IF r.error THEN "error" ELSE "idle"
         /\ returned' = IF r.error THEN returned
                        ELSE Append(returned, [text |-> text, result |-> r.result])
  /\ made' = made + 1
  /\ UNCHANGED <<mappings, calls>>
  /\ UNCHANGED <<batchVars, concVars, productVars, netVars>>

Next == MapToCommonAllergens

Spec == Init /\ [][Next]_vars

\* the values of the cells of the source worksheets
CellValues == {NoneCell, <<"M", "i", "l", "k">>, <<"=", "e", "g", "g">>}

SheetRows == [allergensraw : CellValues, ingredients : CellValues]

\* the worksheets of exactly k data rows
RECURSIVE SheetsOf(_)
SheetsOf(k) ==
  IF k = 0 THEN {<<>>}
  ELSE {Append(sheet, r) : sheet \in SheetsOf(k - 1), r \in SheetRows}

Sheets == UNION {SheetsOf(k) : k \in 1..MaxRows}

\* a run is a sequence of direct calls or one of the two workbook stages
BatchInit ==
  /\ mappings = ALLERGEN_MAPPINGS
  /\ made = 0
  /\ pc = "idle"
  /\ allergen_text = <<>>
  /\ found_allergens = {}
  /\ tried = NoneTried
  /\ result = <<>>
  /\ returned = <<>>
  /\ row = 2
  /\ out = <<>>
  /\ mapped_count = 0
  /\ NoThreads
  /\ NoProduct
  /\ NoCollector
  /\ \/ /\ stage = "calls"
        /\ calls \in CallSequences(2)
        /\ ws = <<>>
     \/ /\ stage \in {"process_excel", "from_scratch"}
        /\ calls = <<>>
        /\ ws \in Sheets

BatchNext == MapToCommonAllergens \/ ProcessExcelRow \/ FromScratchRow

SpecBatch == BatchInit /\ [][BatchNext]_vars

\* the arguments of the concurrent calls
ThreadTexts == {<<"M", "i", "l", "k">>, <<"e", "g", "g", ",", "N", "u", "t">>, <<" ">>}

ConcInit ==
  /\ mappings = ALLERGEN_MAPPINGS
  /\ calls = <<>>
  /\ made = 0
  /\ pc = "idle"
  /\ allergen_text = <<>>
  /\ found_allergens = {}
  /\ tried = NoneTried
  /\ result = <<>>
  /\ returned = <<>>
  /\ stage = "threads"
  /\ ws = <<>>
  /\ row = 2
  /\ out = <<>>
  /\ mapped_count = 0
  /\ th_text \in [Threads -> ThreadTexts]
  /\ th_pc = [t \in Threads |-> "start"]
  /\ th_lower = [t \in Threads |-> <<>>]
  /\ th_n = [t \in Threads |-> 1]
  /\ th_found = [t \in Threads |-> {}]
  /\ th_result = [t \in Threads |-> <<>>]
  /\ overlapped = FALSE
  /\ NoProduct
  /\ NoCollector

ConcNext == \E t \in Threads : ThreadEnter(t) \/ ThreadLabel(t) \/ ThreadReturn(t)

SpecConc == ConcInit /\ [][ConcNext]_vars

ProductInit ==
  /\ mappings = ALLERGEN_MAPPINGS
  /\ calls = <<>>
  /\ made = 0
  /\ pc = "idle"
  /\ allergen_text = <<>>
  /\ found_allergens = {}
  /\ tried = NoneTried
  /\ result = <<>>
  /\ returned = <<>>
  /\ stage = "product"
  /\ ws = <<>>
  /\ row = 2
  /\ out = <<>>
  /\ mapped_count = 0
  /\ NoThreads
  /\ candidate \in ProductInputs
  /\ allowed = "none"
  /\ free = "none"
  /\ mapped = <<"None">>
  /\ NoCollector

ProductNext == IsFromAllowedCountry \/ IsTrulyAllergenFree \/ MapProduct

SpecProduct == ProductInit /\ [][ProductNext]_vars

FetchInit ==
  /\ mappings = ALLERGEN_MAPPINGS
  /\ calls = <<>>
  /\ made = 0
  /\ pc = "idle"
  /\ allergen_text = <<>>
  /\ found_allergens = {}
  /\ tried = NoneTried
  /\ result = <<>>
  /\ returned = <<>>
  /\ stage = "without_allergens"
  /\ ws = <<>>
  /\ row = 2
  /\ out = <<>>
  /\ mapped_count = 0
  /\ NoThreads
  /\ NoProduct
  /\ target_count \in 1..MaxCount
  /\ max_retries \in 0..MaxRetries
  /\ collected = <<>>
  /\ country = 1
  /\ page = 1
  /\ loop_at = "country"
  /\ attempt = 0
  /\ last_outcome = "none"
  /\ n_response = 0
  /\ n_products = 0
  /\ taken = 0
  /\ allergen_at = 1
  /\ allergen_counts = <<>>
  /\ page_requests = 0

FetchNext ==
  \/ CountryStart
  \/ PageStart
  \/ RequestOk
  \/ RequestTimeout
  \/ RequestError
  \/ GiveUp
  \/ Returned
  \/ TakeProduct
  \/ EndPage

\* every request ends, by a response, an error or its timeout, and every sleep
\* ends: the collector keeps taking steps until it is done
SpecFetch == FetchInit /\ [][FetchNext]_vars /\ WF_vars(FetchNext)

CollectInit ==
  /\ mappings = ALLERGEN_MAPPINGS
  /\ calls = <<>>
  /\ made = 0
  /\ pc = "idle"
  /\ allergen_text = <<>>
  /\ found_allergens = {}
  /\ tried = NoneTried
  /\ result = <<>>
  /\ returned = <<>>
  /\ stage = "with_allergens"
  /\ ws = <<>>
  /\ row = 2
  /\ out = <<>>
  /\ mapped_count = 0
  /\ NoThreads
  /\ NoProduct
  /\ target_count \in 0..MaxCount
  /\ max_retries = 0
  /\ collected = <<>>
  /\ country = 1
  /\ page = 1
  /\ loop_at = "allergen"
  /\ attempt = 0
  /\ last_outcome = "none"
  /\ n_response = 0
  /\ n_products = 0
  /\ taken = 0
  /\ allergen_at = 1
  /\ allergen_counts = <<>>
  /\ page_requests = 0

CollectNext ==
  \/ AllergenStart
  \/ AllergenCountry
  \/ AllergenPage
  \/ AllergenProduct
  \/ AllergenEndPage

\* every request ends, by a response or an error, and every sleep ends: the
\* collector keeps taking steps until it is done
SpecCollect == CollectInit /\ [][CollectNext]_vars /\ WF_vars(CollectNext)

\* the pieces of the fields that are joined
JoinPieces == { <<"m", "i", "l", "k">>, <<"N", "u", "t">>, <<",">> }

\* the fields made of exactly k pieces
RECURSIVE JoinFieldsOf(_)
JoinFieldsOf(k) ==
  IF k = 0 THEN {<<>>}
  ELSE {f \o p : f \in JoinFieldsOf(k - 1), p \in JoinPieces}

\* a blank field and a field with no boundary
OtherFields == { <<" ">>, <<"_">> }

\* the raw declarations: those of up to MaxJoin pieces, the empty one among them
JoinFields == OtherFields \cup UNION {JoinFieldsOf(k) : k \in 0..MaxJoin}

\* the ingredient lists: those of up to two pieces
JoinSeconds == OtherFields \cup JoinFieldsOf(0) \cup JoinFieldsOf(1) \cup JoinFieldsOf(2)

\* a run classifies a raw declaration, an ingredient list and the combined
\* text a workbook stage makes of the two
JoinInit ==
  /\ mappings = ALLERGEN_MAPPINGS
  /\ calls \in {<<a, b, CombinedText(a, b)>> : a \in JoinFields, b \in JoinSeconds}
  /\ made = 0
  /\ pc = "idle"
  /\ allergen_text = <<>>
  /\ found_allergens = {}
  /\ tried = NoneTried
  /\ result = <<>>
  /\ returned = <<>>
  /\ stage = "join"
  /\ ws = <<>>
  /\ row = 2
  /\ out = <<>>
  /\ mapped_count = 0
  /\ NoThreads
  /\ NoProduct
  /\ NoCollector

JoinNext == MapToCommonAllergens

SpecJoin == JoinInit /\ [][JoinNext]_vars

TypeOK ==
  /\ pc \in {"idle", "error"}
  /\ made \in 0..Len(calls)
  /\ found_allergens \subseteq CommonAllergens

(***************************************************************************)
(* Properties                                                              *)
(***************************************************************************)
\* the latest call has returned
Called == returned # <<>> /\ pc = "idle"

\* keyword occurs in string with no neighbour, before or after, in the class
\* Inside
BoundedOccurrence(keyword, string, Inside(_)) ==
  \E i \in 1..(Len(string) - Len(keyword) + 1) :
    /\ SubSeq(string, i, i + Len(keyword) - 1) = keyword
    /\ i = 1 \/ ~Inside(string[i - 1])
    /\ i + Len(keyword) > Len(string) \/ ~Inside(string[i + Len(keyword)])

\* alphanumeric or underscore
AlnumOrUnderscore(c) ==
  c \in Range(LowerLetters) \cup Range(UpperLetters) \cup Range(Digits)
          \cup {LongS, "_"}

\* the code's test of the i-th keyword of entry n on the lowercased text
Matched(n, i, lower) == KeywordSearch(mappings[n].keywords[i], lower) = "match"

\* str.split(sep)
RECURSIVE Split(_, _)
Split(s, sep) ==
  LET at == {i \in 1..(Len(s) - Len(sep) + 1) : SubSeq(s, i, i + Len(sep) - 1) = sep}
      first == CHOOSE i \in at : \A j \in at : i <= j
  IN  IF at = {} THEN <<s>>
      ELSE <<SubSeq(s, 1, first - 1)>> \o Split(SubSeq(s, first + Len(sep), Len(s)), sep)

\* the labels a returned string lists
ResultLabels(str) == IF str = <<>> THEN <<>> ELSE Split(str, <<",", " ">>)

\* C1 as stated: a phrase is matched exactly when it occurs in the lowercased
\* text with no alphanumeric character right before or right after it, any
\* other neighbour (underscore included) counting as a boundary
C1_AlnumBoundary ==
  Called =>
    LET lower == Lower(allergen_text)
    IN  \A n \in 1..Len(mappings) : \A i \in 1..Len(mappings[n].keywords) :
          Matched(n, i, lower) <=>
            BoundedOccurrence(mappings[n].keywords[i], lower, IsAlnum)

\* C1 amended: a phrase is matched exactly when it occurs in the lowercased
\* text with no word character (alphanumeric or underscore) right before or
\* right after it
C1_WordBoundary ==
  Called =>
    LET lower == Lower(allergen_text)
    IN  \A n \in 1..Len(mappings) : \A i \in 1..Len(mappings[n].keywords) :
          Matched(n, i, lower) <=>
            BoundedOccurrence(mappings[n].keywords[i], lower, AlnumOrUnderscore)

\* "milk," was classified: the comma is a boundary
C1_Witness ==
  /\ Called
  /\ allergen_text = <<"m", "i", "l", "k", ",">>
  /\ result = <<"m", "i", "l", "k">>

\* every character of the text is whitespace
AllWhitespace(text) == \A i \in DOMAIN text : text[i] \in {" ", "\t"}

\* C2: for a non-blank text, a label is in the result if and only if one of
\* its own phrases matches, whatever the other labels do, and the result
\* lists nothing but the nine labels
C2_LabelIffPhrase ==
  (Called /\ ~AllWhitespace(allergen_text)) =>
    LET lower  == Lower(allergen_text)
        labels == Range(ResultLabels(result))
    IN  /\ \A n \in 1..Len(mappings) :
             (mappings[n].common_allergen \in labels)
               <=> (\E i \in 1..Len(mappings[n].keywords) : Matched(n, i, lower))
        /\ labels \subseteq CommonAllergens

\* a text put two labels in the result and left others out
C2_Witness ==
  /\ Called
  /\ Cardinality(Range(ResultLabels(result))) >= 2
  /\ Range(ResultLabels(result)) # CommonAllergens
  /\ ~AllWhitespace(allergen_text)

\* C3: an empty or whitespace-only text returns the empty string and no
\* keyword of the lexicon is tested
C3_BlankReturnsEmpty ==
  (Called /\ AllWhitespace(allergen_text)) =>
    /\ result = <<>>
    /\ found_allergens = {}
    /\ \A n \in DOMAIN tried : tried[n] = 0

\* a text of a space and a tab was classified
C3_Witness ==
  /\ Called
  /\ allergen_text = <<" ", "\t">>
  /\ result = <<>>

\* the nine labels in ascending order
AlphabeticalLabels ==
  << <<"e", "g", "g">>, <<"f", "i", "s", "h">>, <<"m", "i", "l", "k">>,
     <<"p", "e", "a", "n", "u", "t">>, <<"s", "e", "s", "a", "m", "e">>,
     <<"s", "h", "e", "l", "l", "f", "i", "s", "h">>, <<"s", "o", "y">>,
     <<"t", "r", "e", "e", " ", "n", "u", "t">>, <<"w", "h", "e", "a", "t">> >>

Rank(label) == CHOOSE k \in DOMAIN AlphabeticalLabels : AlphabeticalLabels[k] = label

\* C4: the returned string lists the matched labels in strictly ascending
\* order, separated by ", ", and is empty when no label matched
C4_SortedJoined ==
  Called =>
    LET labels == ResultLabels(result)
    IN  /\ Range(labels) = found_allergens
        /\ Range(labels) \subseteq Range(AlphabeticalLabels)
        /\ \A k \in 1..(Len(labels) - 1) : Rank(labels[k]) < Rank(labels[k + 1])
        /\ found_allergens = {} => result = <<>>

\* a result of several labels whose lexicon order is not the sorted order
C4_Witness ==
  /\ Called
  /\ result = <<"e", "g", "g", ",", " ", "m", "i", "l", "k", ",", " ",
                "w", "h", "e", "a", "t">>

\* the string a call with text returns
Returns(text) == map_to_common_allergens(mappings, text).result

\* C5 as stated: the text, its upper-cased form and its lower-cased form get
\* the same result
C5_CaseInsensitive ==
  Called =>
    /\ result = Returns(Lower(allergen_text))
    /\ result = Returns(Upper(allergen_text))

\* C5 amended: the text and its lower-cased form get the same result, and so
\* does its upper-cased form when lower-casing that form gives the
\* lower-cased text, as it does for every ASCII text
C5_LowerInsensitive ==
  Called =>
    /\ result = Returns(Lower(allergen_text))
    /\ Lower(Upper(allergen_text)) = Lower(allergen_text)
         => result = Returns(Upper(allergen_text))

\* "Nut", in mixed case, was classified as tree nut
C5_Witness ==
  /\ Called
  /\ allergen_text = <<"N", "u", "t">>
  /\ result = <<"t", "r", "e", "e", " ", "n", "u", "t">>

\* C6: in a sequence of calls, two calls with the same text return the same
\* result, whatever calls came before or between them
C6_SameTextSameResult ==
  \A i, j \in DOMAIN returned :
    returned[i].text = returned[j].text => returned[i].result = returned[j].result

\* a text was classified twice with a different call in between
C6_Witness ==
  /\ Len(returned) >= 3
  /\ returned[1].text = returned[3].text
  /\ returned[2].text # returned[1].text
  /\ returned[2].result # returned[1].result
  /\ returned[1].result # <<>>

\* C7: no call ends in an error: every call made has returned a string, the
\* empty string when no phrase matches
C7_Total ==
  /\ pc = "idle"
  /\ Len(returned) = made
  /\ Called =>
       /\ returned[Len(returned)] = [text |-> allergen_text, result |-> result]
       /\ LET lower == Lower(allergen_text)
          IN  (\A n \in 1..Len(mappings) : \A i \in 1..Len(mappings[n].keywords) :
                 ~Matched(n, i, lower)) => result = <<>>

\* a text with a regex metacharacter was classified
C7_Witness ==
  /\ Called
  /\ allergen_text = <<"(", "m", "i", "l", "k">>
  /\ result = <<"m", "i", "l", "k">>

\* C8: a label none of whose phrases occurs as a whole word (each occurrence
\* has an alphanumeric neighbour) is not in the result; "doughnut shop",
\* "nutmeg" and "eggplant" get neither tree nut nor egg
C8_NoEmbeddedMatch ==
  Called =>
    /\ LET lower == Lower(allergen_text)
       IN  \A n \in 1..Len(mappings) :
             (\A i \in 1..Len(mappings[n].keywords) :
                ~BoundedOccurrence(mappings[n].keywords[i], lower, IsAlnum))
               => mappings[n].common_allergen \notin found_allergens
    /\ allergen_text \in {DoughnutShop, Nutmeg, Eggplant}
         => /\ <<"t", "r", "e", "e", " ", "n", "u", "t">> \notin found_allergens
            /\ <<"e", "g", "g">> \notin found_allergens
            /\ result = <<>>

\* "doughnut shop" was classified
C8_Witness ==
  /\ Called
  /\ allergen_text = DoughnutShop
  /\ result = <<>>

\* C9: "contains milk, eggs, and wheat flour", in any letter case, yields
\* exactly egg, milk and wheat
C9_ContainsSentence ==
  (Called /\ Lower(allergen_text) = ContainsSentence) =>
    /\ found_allergens = {<<"e", "g", "g">>, <<"m", "i", "l", "k">>,
                          <<"w", "h", "e", "a", "t">>}
    /\ Range(ResultLabels(result)) = found_allergens

\* the sentence was classified in upper case
C9_Witness ==
  /\ Called
  /\ allergen_text = Upper(ContainsSentence)
  /\ Len(ResultLabels(result)) = 3

\* C10 as stated: a text that is one multi-word phrase of a label yields that
\* label once and nothing else
C10_PhraseAsUnit ==
  Called =>
    \A n \in 1..Len(mappings) :
      (allergen_text \in Range(mappings[n].keywords)
         /\ \E k \in DOMAIN allergen_text : allergen_text[k] = " ")
        => result = mappings[n].common_allergen

\* C11 as stated: every trigger phrase of the lexicon is non-empty,
\* lowercase, and made up of letters and spaces only
C11_LettersAndSpaces ==
  \A n \in 1..Len(mappings) : \A i \in 1..Len(mappings[n].keywords) :
    LET keyword == mappings[n].keywords[i]
    IN  /\ keyword # <<>>
        /\ \A k \in DOMAIN keyword : keyword[k] \in Range(LowerLetters) \cup {" "}

\* C11 amended: every trigger phrase of the lexicon is non-empty and made up
\* of lowercase letters, digits and spaces only
C11_LettersDigitsSpaces ==
  \A n \in 1..Len(mappings) : \A i \in 1..Len(mappings[n].keywords) :
    LET keyword == mappings[n].keywords[i]
    IN  /\ keyword # <<>>
        /\ \A k \in DOMAIN keyword :
             keyword[k] \in Range(LowerLetters) \cup Range(Digits) \cup {" "}

\* the process holds the nine entries, the fish phrase "omega 3" among them,
\* and has classified a text
C11_Witness ==
  /\ Called
  /\ Len(mappings) = 9
  /\ \E i \in 1..Len(mappings[7].keywords) :
       mappings[7].keywords[i] = <<"o", "m", "e", "g", "a", " ", "3">>

\* C15: a call tries each label's phrases in stored order and stops at the
\* first one that matches, and the labels found are those a test of every
\* phrase finds
C15_ShortCircuit ==
  (Called /\ ~AllWhitespace(allergen_text)) =>
    LET lower == Lower(allergen_text)
    IN  /\ \A n \in 1..Len(mappings) :
             LET hits == {i \in 1..Len(mappings[n].keywords) : Matched(n, i, lower)}
             IN  /\ hits = {} => tried[n] = Len(mappings[n].keywords)
                 /\ hits # {} => /\ tried[n] \in hits
                                 /\ \A i \in hits : tried[n] <= i
                 /\ (mappings[n].common_allergen \in found_allergens) <=> hits # {}

\* a call left one label's scan early and ran another label's scan to its end
C15_Witness ==
  /\ Called
  /\ \E n \in 1..Len(mappings) :
       /\ tried[n] > 1
       /\ tried[n] < Len(mappings[n].keywords)
       /\ mappings[n].common_allergen \in found_allergens
  /\ \E m \in 1..Len(mappings) :
       /\ tried[m] = Len(mappings[m].keywords)
       /\ mappings[m].common_allergen \notin found_allergens

\* C12: the lexicon is read-only: after any sequence of direct calls and
\* after any part of a workbook run of either stage it still holds the same
\* labels with the same phrases in the same order
C12_LexiconReadOnly == mappings = ALLERGEN_MAPPINGS

\* C12 witness: a workbook of two rows has been read to its end and labels
\* were written, or two direct calls have returned a label
C12_Witness ==
  /\ mappings = ALLERGEN_MAPPINGS
  /\ \/ stage # "calls" /\ Len(ws) = 2 /\ row = TotalRows + 1 /\ mapped_count = 2
     \/ stage = "calls" /\ made = 2 /\ result # <<>>

\* the text of row k as the worksheet holds it: the raw declaration, one
\* space, the ingredient list, an empty cell read as the empty text
RowText(k) ==
  OrEmpty(ws[k - 1].allergensraw) \o <<" ">> \o OrEmpty(ws[k - 1].ingredients)

\* the text of row k with a field that starts with "=" read as empty by
\* create_foodpreprocessed_from_scratch
RowTextRead(k) ==
  IF stage = "from_scratch"
    THEN SkipFormula(OrEmpty(ws[k - 1].allergensraw)) \o <<" ">>
           \o SkipFormula(OrEmpty(ws[k - 1].ingredients))
    ELSE RowText(k)

\* the texts a row of the worksheets can hold or be read as
RowTexts ==
  {a \o <<" ">> \o i : a \in {OrEmpty(c) : c \in CellValues} \cup {<<>>},
                       i \in {OrEmpty(c) : c \in CellValues} \cup {<<>>}}

\* the classification of each of these texts
Classification ==
  [text \in RowTexts |-> map_to_common_allergens(ALLERGEN_MAPPINGS, text).result]

\* C14 as stated: the rows written are the rows read so far, each at its own
\* index, and the label string of each is the classification of the raw
\* declaration, one space and the ingredient list of that row
C14_RowOwnText ==
  stage # "calls" =>
    /\ DOMAIN out = 2..(row - 1)
    /\ \A k \in DOMAIN out : out[k].allergensmapped = Classification[RowText(k)]

\* C14 amended: the same, with a field that starts with "=" counted as empty
\* in create_foodpreprocessed_from_scratch
C14_RowOwnTextRead ==
  stage # "calls" =>
    /\ DOMAIN out = 2..(row - 1)
    /\ \A k \in DOMAIN out : out[k].allergensmapped = Classification[RowTextRead(k)]

\* C14 witness: create_foodpreprocessed_from_scratch has written two rows of
\* different content and different label strings, one with a field that
\* starts with "="
C14_Witness ==
  /\ stage = "from_scratch"
  /\ row = 4
  /\ ws[1].ingredients = <<"=", "e", "g", "g">>
  /\ out[2].allergensmapped # out[3].allergensmapped
  /\ out[3].allergensmapped # <<>>
\* what each argument of the concurrent calls gets from a call run alone
AloneResult ==
  [text \in ThreadTexts |-> map_to_common_allergens(ALLERGEN_MAPPINGS, text).result]

\* C13: whatever the interleaving of the steps of the concurrent calls, each
\* call that has returned has returned what a call with its argument, run
\* alone, returns
C13_ConcurrentSameResult ==
  \A t \in DOMAIN th_pc :
    th_pc[t] = "done" => th_result[t] = AloneResult[th_text[t]]

\* C13 witness: two calls with different arguments whose steps overlapped
\* have both returned, with different labels
C13_Witness ==
  /\ stage = "threads"
  /\ overlapped
  /\ \A t \in Threads : th_pc[t] = "done"
  /\ th_result[1] # <<>>
  /\ th_result[2] # <<>>
  /\ th_result[1] # th_result[2]
\* the country tags that name the United States or the United Kingdom
NamesUSorUK(tag) == \E k \in DOMAIN ALLOWED_COUNTRIES : Lower(tag) = ALLOWED_COUNTRIES[k]

\* C19: is_from_allowed_country returns True for a product with a tag of the
\* United States or of the United Kingdom, and False for a product with no
\* country tag or with tags of other countries only
C19_OnlyAllowedCountries ==
  allowed # "none" =>
    (allowed = "True" <=>
       \E k \in DOMAIN candidate.countries_tags : NamesUSorUK(candidate.countries_tags[k]))

\* C20: a product that is_truly_allergen_free accepts gets no label from the
\* mapping stage
C20_AllergenFreeMapsEmpty ==
  (free = "True" /\ mapped # <<"None">>) => mapped = <<>>
\* the retry protocol, in every state of a search call and after it
RetryProtocol ==
  /\ attempt <= max_retries
  /\ (loop_at = "request" /\ attempt > 0) => last_outcome = "timeout"
  /\ last_outcome = "ok" => (loop_at # "request" /\ n_products = n_response)
  /\ last_outcome = "error" => (loop_at # "request" /\ n_products = 0)
  /\ (loop_at = "returned" /\ last_outcome \in {"timeout", "none"}) =>
       (attempt = max_retries /\ n_products = 0)

\* C16: search_without_allergens sends at most max_retries requests, a further
\* one only after a timeout; a response ends the call with the products of the
\* response, another error ends it with the empty list, and so do max_retries
\* timeouts; every call ends
C16_BoundedRetry ==
  /\ []RetryProtocol
  /\ (loop_at = "request") ~> (loop_at = "returned")

\* C16 witness: a call has ended after max_retries timeouts, two or more
C16_Witness ==
  /\ stage = "without_allergens"
  /\ loop_at = "returned"
  /\ last_outcome = "timeout"
  /\ attempt = max_retries
  /\ max_retries >= 2

\* C17: when the search call of a page ends after max_retries timeouts, with
\* the target not reached and pages left, the collector goes on to the next
\* page of the same country
C17_OnlyPageSkipped ==
  [][(/\ stage = "without_allergens"
      /\ loop_at = "returned"
      /\ last_outcome = "timeout"
      /\ attempt = max_retries
      /\ Cardinality(DOMAIN collected) < target_count
      /\ page + 1 < PageStop)
       => (country' = country /\ page' = page + 1)]_vars
\* the sum of a sequence of numbers
RECURSIVE Sum(_)
Sum(seq) == IF seq = <<>> THEN 0 ELSE Head(seq) + Sum(Tail(seq))

\* at most target_count products collected, at most its target for each
\* allergen, each product under its own code and counted once, each a
\* product that is_valid_product accepts with require_allergens=True, and at
\* most 5 page requests for the allergen in the country
CollectBounds ==
  /\ Cardinality(DOMAIN collected) <= target_count
  /\ \A n \in DOMAIN allergen_counts : allergen_counts[n] <= Target(n)
  /\ \A c \in DOMAIN collected : collected[c].code = c /\ c # ""
  /\ Sum(allergen_counts) = Cardinality(DOMAIN collected)
  /\ \A c \in DOMAIN collected : collected[c] \in ValidWithAllergens
  /\ page_requests <= 5

LabelsOf(k) == Range(ResultLabels(returned[k].result))

\* C21: joining the two fields loses no label: every label of the raw
\* declaration alone or of the ingredient list alone is a label of the
\* combined text
C21_JoinKeepsLabels ==
  (stage = "join" /\ Len(returned) = 3) =>
    (LabelsOf(1) \cup LabelsOf(2)) \subseteq LabelsOf(3)

\* C21 witness: two fields with different labels, one ending and one
\* starting with its phrase, and the combined text have been classified
C21_Witness ==
  /\ stage = "join"
  /\ Len(returned) = 3
  /\ returned[1].text = <<"m", "i", "l", "k">>
  /\ returned[2].text = <<"N", "u", "t">>
  /\ returned[3].text = returned[1].text \o <<" ">> \o returned[2].text
  /\ LabelsOf(1) # {}
  /\ LabelsOf(2) # {}
  /\ LabelsOf(1) # LabelsOf(2)
  /\ LabelsOf(3) = LabelsOf(1) \cup LabelsOf(2)
====
